---- MODULE Spec2Model ----
(***************************************************************************)
(* Verification model of virt-platform-autopilot: the tombstone            *)
(* reconciler, the override decoder, root exclusion, the token-bucket      *)
(* throttle and the Patched Baseline pipeline (patcher + applier).         *)
(*                                                                         *)
(* Four specifications share the variables below:                          *)
(*   SpecTombstone  - ReconcileTombstones / reconcileTombstone             *)
(*   SpecExclusion  - ParseDisabledResources / IsResourceExcluded          *)
(*   SpecThrottle   - the token bucket                                     *)
(*   Spec           - the per-object pipeline                              *)
(***************************************************************************)
EXTENDS Integers, Sequences, FiniteSets, TLC

VARIABLES
    \* ---- tombstone reconciler (pkg/engine/tombstone.go) ----
    tsFiles,        \* embedded tombstone declarations (constant after Init)
    recorderSet,    \* TRUE when SetEventRecorder was called
    tcluster,       \* API server state of the tombstoned objects
    tsPc,           \* "idle" | "get" | "delete"
    tsList,         \* tombstones loaded for the running pass
    tsIdx,          \* index of the tombstone being processed
    tsLive,         \* labels of the object returned by Get in this iteration
    deletedCount,   \* ReconcileTombstones' deletedCount
    aggregatedErrors, \* len(aggregatedErrors)
    tsOutcome,      \* per tombstone index: what this pass did with it
    tsRet,          \* return value of the last finished pass
    tsQuiet,        \* history: passes that ran undisturbed since the last
                    \* change by another actor or API failure
    tsPrev,         \* history: per tombstone, the status the previous pass set
    \* ---- Patched Baseline pipeline for one managed object ----
    asset,          \* [kind, name] of the object the asset renders
    template,       \* opinionated state the asset renders (labels, data)
    hcoDisabled,    \* HCO annotation platform.kubevirt.io/disabled-resources
    live,           \* the live object on the API server
    last,           \* what the last ReconcileAsset call did (reset by other actors)
    \* ---- token bucket ----
    capacity,       \* bucket capacity the throttle was built with
    window,         \* bucket window the throttle was built with
    bucket,         \* the bucket of the object's key
    now,            \* the clock
    thrCalls,       \* Allow calls that fell inside the bucket's current window
    admits,         \* times of the admitted applies of the last window length
    \* ---- reconciler core ----
    hco,            \* the HyperConverged object on the API server
    catalog,        \* the asset catalog in declared order (constant after Init)
    rcPc,           \* "idle" | "assets" | "tombstones" | "returning"
    rcSeen,         \* the HCO as fetched at the start of the reconciliation
    rcCtx,          \* the render context in use
    rcTodo,         \* ordered assets still to process
    rcTrace,        \* assets processed by this reconciliation, in order
    rcErrs,         \* errors aggregated so far
    rcRetry,        \* smallest requeue interval so far
    rcRet,          \* what the last finished reconciliation returned
    \* ---- pure functions applied to drawn inputs ----
    fnIn,           \* the input drawn for the function
    fnOut,          \* <<what the function returned for it>>, <<>> before the call
    \* ---- the process (cmd/main.go runController) ----
    proc,           \* [pc, exit, check, shutdownFn, cancelled, triggered]
    watchedCRDs,    \* the reconciler's watchedCRDs map, as the set of its keys
    crdEvent,       \* the last CRD event handled and what the handler did
    \* ---- concurrent callers of the mutex-protected maps ----
    th,             \* per goroutine: [pc, op, arg, local, res, pre, calls]
    locks,          \* per mutex: the goroutine holding it, or "none"
    conc            \* history of the calls made so far

tombVars == <<tsFiles, recorderSet, tcluster, tsPc, tsList, tsIdx, tsLive,
              deletedCount, aggregatedErrors, tsOutcome, tsRet, tsQuiet,
              tsPrev>>

pipeVars == <<asset, template, hcoDisabled, live, last>>
thrVars == <<capacity, window, bucket, now>>
histVars == <<thrCalls, admits>>

coreVars == <<hco, catalog, rcPc, rcSeen, rcCtx, rcTodo, rcTrace, rcErrs,
              rcRetry, rcRet>>

fnVars == <<fnIn, fnOut>>
procVars == <<proc, watchedCRDs, crdEvent>>
concVars == <<th, locks, conc>>

extVars == <<fnVars, procVars, concVars>>

vars == <<tombVars, pipeVars, thrVars, histVars, coreVars, extVars>>

(***************************************************************************)
(* Labels.  A label map is a function from a set of keys to values; a Go   *)
(* map lookup of a missing key yields "".                                  *)
(***************************************************************************)
TombstoneLabel == "platform.kubevirt.io/managed-by"
TombstoneLabelValue == "virt-platform-autopilot"

NoLabels == [k \in {} |-> ""]
ManagedLabels(v) == [k \in {TombstoneLabel} |-> v]
Lookup(m, k) == IF k \in DOMAIN m THEN m[k] ELSE ""

\* label values an object can carry for the ownership key
LabelValues == {TombstoneLabelValue, "some-other-operator", "Virt-Platform-Autopilot", ""}
LabelMaps == {NoLabels} \cup {ManagedLabels(v) : v \in LabelValues}

(***************************************************************************)
(* Tombstone declarations and LoadTombstones / validateTombstone.          *)
(***************************************************************************)
Decl(kind, apiVersion, ns, name, labels) ==
    [kind |-> kind, apiVersion |-> apiVersion, namespace |-> ns, name |-> name,
     labels |-> labels]

DeclCM == Decl("ConfigMap", "v1", "default", "test-config",
               ManagedLabels(TombstoneLabelValue))
DeclMC == Decl("MachineConfig", "machineconfiguration.openshift.io/v1", "",
               "50-swap-enable", ManagedLabels(TombstoneLabelValue))
DeclWrongLabel == Decl("ConfigMap", "v1", "default", "wrong-label-config",
                       ManagedLabels("some-other-operator"))
DeclNoLabels == Decl("ConfigMap", "v1", "default", "unmanaged-config", NoLabels)
DeclNoKind == Decl("", "v1", "default", "test-config",
                   ManagedLabels(TombstoneLabelValue))
DeclNoApiVersion == Decl("ConfigMap", "", "default", "test-config",
                         ManagedLabels(TombstoneLabelValue))
DeclNoName == Decl("ConfigMap", "v1", "default", "",
                   ManagedLabels(TombstoneLabelValue))

\* the embedded file sets the model starts from
TombstoneFileSets ==
    { <<>>, <<DeclCM>>, <<DeclCM, DeclMC>>, <<DeclCM, DeclWrongLabel>>,
      <<DeclNoLabels, DeclMC>>, <<DeclNoKind>>, <<DeclNoApiVersion>>,
      <<DeclNoName, DeclCM>> }

\* a validation that checks the label's presence only
validateTombstoneAnyLabelValue(o) ==
    /\ o.kind # ""
    /\ o.apiVersion # ""
    /\ o.name # ""
    /\ TombstoneLabel \in DOMAIN o.labels

\* TRUE when validateTombstone returns nil
validateTombstone(o) ==
    /\ o.kind # ""
    /\ o.apiVersion # ""
    /\ o.name # ""
    /\ o.labels # NoLabels
    /\ Lookup(o.labels, TombstoneLabel) = TombstoneLabelValue

\* a loader that leaves out the declarations that fail validation
LoadTombstonesSkipsInvalid(files) ==
    [err |-> FALSE, tombstones |-> SelectSeq(files, validateTombstone)]
\* LoadTombstones: all declarations or an error, never a partial list
LoadTombstones(files) ==
    IF \A i \in 1..Len(files) : validateTombstone(files[i])
    THEN [err |-> FALSE, tombstones |-> files]
    ELSE [err |-> TRUE, tombstones |-> <<>>]

ObjKey(ts) == <<ts.kind, ts.namespace, ts.name>>
TombKeys == {ObjKey(DeclCM), ObjKey(DeclMC)}

Absent == [exists |-> FALSE, labels |-> NoLabels]
Present(l) == [exists |-> TRUE, labels |-> l]

(***************************************************************************)
(* reconcileTombstone, split at its two API calls (Get, Delete).           *)
(***************************************************************************)
NoOutcome == [status |-> "none", event |-> "none", deleteCalled |-> FALSE,
              err |-> FALSE, deleted |-> FALSE, fetched |-> "none",
              fetchedLabels |-> NoLabels, gone |-> FALSE]

\* what reconcileTombstone reports when Get answers NotFound
NotFoundOutcomeAsError ==
    [NoOutcome EXCEPT !.status = "Error", !.fetched = "notfound", !.err = TRUE]
NotFoundOutcome ==
    [NoOutcome EXCEPT !.status = "Deleted", !.fetched = "notfound"]

\* history kept for the idempotence property: clean counts the passes (up
\* to 2) that ran one after the other with no change by another actor and
\* no API failure, the first of them without error; dirty marks a pass
\* that was disturbed
NoQuiet == [clean |-> 0, dirty |-> FALSE]
Disturbed == [clean |-> 0, dirty |-> TRUE]
PassEnd(q, dirty, err) ==
    [clean |-> IF dirty THEN 0
               ELSE IF q.clean >= 1 THEN 2
               ELSE IF err THEN 0 ELSE 1,
     dirty |-> FALSE]

\* an event handed to the recorder; without a recorder nothing is emitted
EventTombstoneFailed(e) == IF recorderSet THEN "TombstoneFailed" ELSE "none"
Event(e) == IF recorderSet THEN e ELSE "none"

\* the ownership-label safety check: TRUE when deletion must be skipped
LabelMismatchIgnoresValue(labels) == TombstoneLabel \notin DOMAIN labels
LabelMismatch(labels) ==
    labels = NoLabels \/ Lookup(labels, TombstoneLabel) # TombstoneLabelValue

\* after one tombstone: next one, or the end of ReconcileTombstones
AdvanceReturnsOnError(outcome, isErr, isDeleted) ==
    LET cnt  == IF isDeleted THEN deletedCount + 1 ELSE deletedCount
        errs == IF isErr THEN aggregatedErrors + 1 ELSE aggregatedErrors
    IN  /\ tsOutcome' = [tsOutcome EXCEPT ![tsIdx] = outcome]
        /\ deletedCount' = cnt
        /\ aggregatedErrors' = errs
        /\ tsLive' = NoLabels
        /\ IF tsIdx < Len(tsList) /\ ~isErr
           THEN /\ tsIdx' = tsIdx + 1
                /\ tsPc' = "get"
                /\ tsQuiet' = tsQuiet
                /\ UNCHANGED tsRet
           ELSE /\ tsIdx' = 0
                /\ tsPc' = "idle"
                /\ tsQuiet' = NoQuiet
                /\ tsRet' = [count |-> cnt, err |-> errs > 0, loadErr |-> FALSE]
Advance(outcome, isErr, isDeleted) ==
    LET cnt  == IF isDeleted THEN deletedCount + 1 ELSE deletedCount
        errs == IF isErr THEN aggregatedErrors + 1 ELSE aggregatedErrors
        dirty == \/ tsQuiet.dirty
                 \/ outcome.fetched = "error"
                 \/ outcome.deleteCalled /\ outcome.err
    IN  /\ tsOutcome' = [tsOutcome EXCEPT ![tsIdx] = outcome]
        /\ deletedCount' = cnt
        /\ aggregatedErrors' = errs
        /\ tsLive' = NoLabels
        /\ IF tsIdx < Len(tsList)
           THEN /\ tsIdx' = tsIdx + 1
                /\ tsPc' = "get"
                /\ tsQuiet' = [tsQuiet EXCEPT !.dirty = dirty]
                /\ UNCHANGED tsRet
           ELSE /\ tsIdx' = 0
                /\ tsPc' = "idle"
                /\ tsQuiet' = PassEnd(tsQuiet, dirty, errs > 0)
                /\ tsRet' = [count |-> cnt, err |-> errs > 0, loadErr |-> FALSE]

\* a reconciler that runs the loop in its first pass only
ReconcileTombstonesOnce ==
    /\ tsPc = "idle"
    /\ LET loaded == LoadTombstones(tsFiles)
           done == loaded.err \/ Len(loaded.tombstones) = 0 \/ Len(tsOutcome) > 0
       IN  /\ tsOutcome' = [i \in 1..Len(loaded.tombstones) |-> NoOutcome]
           /\ deletedCount' = 0
           /\ aggregatedErrors' = 0
           /\ tsLive' = NoLabels
           /\ tsList' = loaded.tombstones
           /\ tsPrev' = [i \in 1..Len(tsOutcome) |-> tsOutcome[i].status]
           /\ tsQuiet' = NoQuiet
           /\ tsPc' = IF done THEN "idle" ELSE "get"
           /\ tsIdx' = IF done THEN 0 ELSE 1
           /\ tsRet' = IF done
                       THEN [count |-> 0, err |-> loaded.err, loadErr |-> loaded.err]
                       ELSE tsRet
    /\ UNCHANGED <<tsFiles, recorderSet, tcluster>>
    /\ UNCHANGED <<pipeVars, thrVars, histVars, extVars>>

\* ReconcileTombstones up to the loop
ReconcileTombstones ==
    /\ tsPc = "idle"
    /\ LET loaded == LoadTombstones(tsFiles)
       IN  /\ tsOutcome' = [i \in 1..Len(loaded.tombstones) |-> NoOutcome]
           /\ deletedCount' = 0
           /\ aggregatedErrors' = 0
           /\ tsLive' = NoLabels
           /\ tsList' = loaded.tombstones
           /\ tsPrev' = [i \in 1..Len(tsOutcome) |-> tsOutcome[i].status]
           /\ IF loaded.err
              THEN /\ tsRet' = [count |-> 0, err |-> TRUE, loadErr |-> TRUE]
                   /\ tsPc' = "idle"
                   /\ tsIdx' = 0
                   /\ tsQuiet' = PassEnd(tsQuiet, FALSE, TRUE)
              ELSE IF Len(loaded.tombstones) = 0
                   THEN /\ tsRet' = [count |-> 0, err |-> FALSE, loadErr |-> FALSE]
                        /\ tsPc' = "idle"
                        /\ tsIdx' = 0
                        /\ tsQuiet' = PassEnd(tsQuiet, FALSE, FALSE)
                   ELSE /\ tsPc' = "get"
                        /\ tsIdx' = 1
                        /\ tsQuiet' = [tsQuiet EXCEPT !.dirty = FALSE]
                        /\ UNCHANGED tsRet
    /\ UNCHANGED <<tsFiles, recorderSet, tcluster>>
    /\ UNCHANGED <<pipeVars, thrVars, histVars, extVars>>

\* ReconcileTombstones called on its own
TombStart ==
    /\ ReconcileTombstones
    /\ UNCHANGED coreVars

\* r.client.Get and the branches that return without a Delete
TombGet ==
    /\ tsPc = "get"
    /\ LET key == ObjKey(tsList[tsIdx])
           found == tcluster[key]
       IN \E apiFails \in BOOLEAN :
            IF apiFails
            THEN \* Get failed with an error other than NotFound
                 Advance([NoOutcome EXCEPT !.status = "Error",
                                           !.event = Event("TombstoneFailed"),
                                           !.err = TRUE, !.fetched = "error"],
                         TRUE, FALSE)
            ELSE IF ~found.exists
            THEN Advance(NotFoundOutcome, NotFoundOutcome.err, FALSE)
            ELSE IF LabelMismatch(found.labels)
            THEN Advance([NoOutcome EXCEPT !.status = "Skipped",
                                           !.event = Event("TombstoneSkipped"),
                                           !.fetched = "found",
                                           !.fetchedLabels = found.labels],
                         FALSE, FALSE)
            ELSE /\ tsLive' = found.labels
                 /\ tsPc' = "delete"
                 /\ UNCHANGED <<tsIdx, deletedCount, aggregatedErrors, tsOutcome,
                                tsRet, tsQuiet>>
    /\ UNCHANGED <<tsFiles, recorderSet, tcluster, tsList, tsPrev>>
    /\ UNCHANGED <<pipeVars, thrVars, histVars, coreVars, extVars>>

\* r.client.Delete and what follows it
TombDelete ==
    /\ tsPc = "delete"
    /\ LET key == ObjKey(tsList[tsIdx])
           found == tcluster[key]
           base == [NoOutcome EXCEPT !.deleteCalled = TRUE, !.fetched = "found",
                                     !.fetchedLabels = tsLive]
       IN \E apiFails \in BOOLEAN :
            IF apiFails \/ ~found.exists
            THEN \* any error of Delete, NotFound included
                 /\ Advance([base EXCEPT !.status = "Error",
                                         !.event = Event("TombstoneFailed"),
                                         !.err = TRUE,
                                         !.gone = ~apiFails /\ ~found.exists],
                            TRUE, FALSE)
                 /\ UNCHANGED tcluster
            ELSE /\ tcluster' = [tcluster EXCEPT ![key] = Absent]
                 /\ Advance([base EXCEPT !.status = "Deleted",
                                         !.event = Event("TombstoneDeleted"),
                                         !.deleted = TRUE],
                            FALSE, TRUE)
    /\ UNCHANGED <<tsFiles, recorderSet, tsList, tsPrev>>
    /\ UNCHANGED <<pipeVars, thrVars, histVars, coreVars, extVars>>

\* other actors: create, relabel or remove a tombstoned object
EnvTombSet ==
    /\ \E k \in TombKeys, l \in LabelMaps :
         /\ tcluster[k] # Present(l)
         /\ tcluster' = [tcluster EXCEPT ![k] = Present(l)]
    /\ tsQuiet' = Disturbed
    /\ UNCHANGED <<tsFiles, recorderSet, tsPc, tsList, tsIdx, tsLive,
                   deletedCount, aggregatedErrors, tsOutcome, tsRet, tsPrev>>
    /\ UNCHANGED <<pipeVars, thrVars, histVars, coreVars, extVars>>

EnvTombRemove ==
    /\ \E k \in TombKeys :
         /\ tcluster[k].exists
         /\ tcluster' = [tcluster EXCEPT ![k] = Absent]
    /\ tsQuiet' = Disturbed
    /\ UNCHANGED <<tsFiles, recorderSet, tsPc, tsList, tsIdx, tsLive,
                   deletedCount, aggregatedErrors, tsOutcome, tsRet, tsPrev>>
    /\ UNCHANGED <<pipeVars, thrVars, histVars, coreVars, extVars>>

(***************************************************************************)
(* Text.  A string is the sequence of its pieces of text; in the           *)
(* exclusion specification every piece is a single character.              *)
(***************************************************************************)
Space == " "
Comma == ","
Slash == "/"

\* strings.TrimSpace
RECURSIVE TrimLeft(_)
TrimLeft(s) == IF s # <<>> /\ Head(s) = Space THEN TrimLeft(Tail(s)) ELSE s

RECURSIVE TrimRight(_)
TrimRight(s) ==
    IF s # <<>> /\ s[Len(s)] = Space
    THEN TrimRight(SubSeq(s, 1, Len(s) - 1))
    ELSE s

TrimSpace(s) == TrimRight(TrimLeft(s))

\* strings.Split(s, ","): the pieces between the commas, empty ones included
RECURSIVE Split(_)
Split(s) ==
    IF \A i \in 1..Len(s) : s[i] # Comma
    THEN <<s>>
    ELSE LET i == CHOOSE i \in 1..Len(s) :
                      s[i] = Comma /\ \A j \in 1..(i - 1) : s[j] # Comma
         IN  <<SubSeq(s, 1, i - 1)>> \o Split(SubSeq(s, i + 1, Len(s)))

(***************************************************************************)
(* Root exclusion (pkg/engine/exclusion.go).  The map[string]bool holds    *)
(* only true entries, so it is the set of its keys.                        *)
(***************************************************************************)
ParseDisabledResources(annotation) ==
    IF annotation = <<>>
    THEN {}
    ELSE LET pairs == Split(annotation)
         IN  {TrimSpace(pairs[i]) : i \in 1..Len(pairs)} \ {<<>>}

\* fmt.Sprintf("%s/%s", kind, name)
ExclusionKey(kind, name) == <<kind, Slash, name>>

IsResourceExcludedFoldCase(kind, name, disabledMap) ==
    LET Lower(s) == [i \in 1..Len(s) |-> IF s[i] = "A" THEN "a" ELSE s[i]]
    IN  IF Cardinality(disabledMap) = 0
        THEN FALSE
        ELSE Lower(ExclusionKey(kind, name)) \in {Lower(e) : e \in disabledMap}
IsResourceExcluded(kind, name, disabledMap) ==
    IF Cardinality(disabledMap) = 0
    THEN FALSE
    ELSE ExclusionKey(kind, name) \in disabledMap

(***************************************************************************)
(* Managed objects.  A nil object is the record with exists = FALSE.       *)
(***************************************************************************)
ManagedByLabel == TombstoneLabel
ManagedByValue == TombstoneLabelValue

PatchAnnotation == "platform.kubevirt.io/patch"
AnnotationIgnoreFields == "platform.kubevirt.io/ignore-fields"
AnnotationMode == "platform.kubevirt.io/mode"
ModeUnmanaged == "unmanaged"
AnnotationReconcilePaused == "platform.kubevirt.io/reconcile-paused"

NoAnnotations == [k \in {} |-> ""]
NoData == [k \in {} |-> ""]

NilObject == [exists |-> FALSE, kind |-> "", labels |-> NoLabels,
              annotations |-> NoAnnotations, data |-> NoData]
Object(kind, labels, annotations, data) ==
    [exists |-> TRUE, kind |-> kind, labels |-> labels,
     annotations |-> annotations, data |-> data]

\* m with key k set to v / with key k removed
With(m, k, v) == [x \in DOMAIN m \cup {k} |-> IF x = k THEN v ELSE m[x]]
Without(m, k) == [x \in DOMAIN m \ {k} |-> m[x]]
\* m overlaid with the entries of n
Merge(m, n) == [x \in DOMAIN m \cup DOMAIN n |-> IF x \in DOMAIN n THEN n[x] ELSE m[x]]

(***************************************************************************)
(* Override decoding (package overrides).  The Validate operators are      *)
(* TRUE when the Go function returns a nil error.                          *)
(***************************************************************************)
sensitiveKinds ==
    {"MachineConfig", "KubeletConfig", "ClusterRole", "ClusterRoleBinding",
     "Role", "RoleBinding", "ServiceAccount", "PodSecurityPolicy",
     "SecurityContextConstraints", "ValidatingWebhookConfiguration",
     "MutatingWebhookConfiguration"}

\* the patch texts users write in the model
PatchSetA == "[{op:replace, path:/data/a, value:2}]"
PatchSetLabel == "[{op:add, path:/metadata/labels/platform.kubevirt.io~1managed-by, value:patched-operator}]"
PatchNotJSON == "not-json"

\* the operations a patch text decodes to
DecodePatch(text) ==
    CASE text = PatchSetA ->
           [err |-> FALSE,
            ops |-> <<[op |-> "replace", section |-> "data", key |-> "a",
                       value |-> "2"]>>]
      [] text = PatchSetLabel ->
           [err |-> FALSE,
            ops |-> <<[op |-> "add", section |-> "labels", key |-> ManagedByLabel,
                       value |-> "patched-operator"]>>]
      [] OTHER -> [err |-> TRUE, ops |-> <<>>]

ValidateJSONPatch(patchStr) == ~DecodePatch(patchStr).err

\* the ignore-fields texts users write in the model
PointerA == "/data/a"
PointerMissing == "/data/c"
PointerNoSlash == "data/a"

\* the data keys an ignore-fields text points at
DecodePointers(text) ==
    CASE text = PointerA -> [err |-> FALSE, keys |-> {"a"}]
      [] text = PointerMissing -> [err |-> FALSE, keys |-> {"c"}]
      [] text = "" -> [err |-> FALSE, keys |-> {}]
      [] OTHER -> [err |-> TRUE, keys |-> {}]

ValidatePointers(ignoreFields) == ~DecodePointers(ignoreFields).err

ValidatePatchSecurityAllowsAll(o) == o.exists
ValidatePatchSecurity(o) ==
    IF ~o.exists
    THEN FALSE
    ELSE ~(o.kind \in sensitiveKinds /\ PatchAnnotation \in DOMAIN o.annotations)

IsUnmanagedOtherSpelling(o) ==
    IF ~o.exists
    THEN FALSE
    ELSE AnnotationMode \in DOMAIN o.annotations
         /\ o.annotations[AnnotationMode] = "Unmanaged"
IsUnmanaged(o) ==
    IF ~o.exists
    THEN FALSE
    ELSE AnnotationMode \in DOMAIN o.annotations
         /\ o.annotations[AnnotationMode] = ModeUnmanaged

IsPausedNever(o) == FALSE
IsPaused(o) ==
    IF ~o.exists
    THEN FALSE
    ELSE AnnotationReconcilePaused \in DOMAIN o.annotations
         /\ o.annotations[AnnotationReconcilePaused] = "true"

\* a validation that refuses every override annotation on a sensitive kind
ValidateAnnotationsRejectsSensitive(o) ==
    IF ~o.exists
    THEN FALSE
    ELSE LET annotations == o.annotations
         IN  /\ o.kind \in sensitiveKinds =>
                   DOMAIN annotations \cap
                     {PatchAnnotation, AnnotationIgnoreFields, AnnotationMode} = {}
             /\ PatchAnnotation \in DOMAIN annotations =>
                   ValidateJSONPatch(annotations[PatchAnnotation])
             /\ AnnotationIgnoreFields \in DOMAIN annotations =>
                   ValidatePointers(annotations[AnnotationIgnoreFields])
             /\ AnnotationMode \in DOMAIN annotations =>
                   annotations[AnnotationMode] \in {ModeUnmanaged, ""}
ValidateAnnotations(o) ==
    IF ~o.exists
    THEN FALSE
    ELSE LET annotations == o.annotations
         IN  /\ PatchAnnotation \in DOMAIN annotations =>
                   /\ ValidateJSONPatch(annotations[PatchAnnotation])
                   /\ ValidatePatchSecurity(o)
             /\ AnnotationIgnoreFields \in DOMAIN annotations =>
                   ValidatePointers(annotations[AnnotationIgnoreFields])
             /\ AnnotationMode \in DOMAIN annotations =>
                   annotations[AnnotationMode] \in {ModeUnmanaged, ""}

(***************************************************************************)
(* Token bucket throttle, one bucket per object key, created lazily.       *)
(***************************************************************************)
DefaultCapacity == 5
DefaultWindow == 60

NoBucket == [exists |-> FALSE, remaining |-> 0, windowStart |-> 0, trips |-> 0]

\* the bucket Allow works on: created on first use, refilled when the
\* window has expired
RefillKeepsWindowStart(b, t) ==
    IF ~b.exists
    THEN [exists |-> TRUE, remaining |-> capacity, windowStart |-> t, trips |-> 0]
    ELSE IF b.windowStart + window <= t
         THEN [b EXCEPT !.remaining = capacity, !.trips = 0]
         ELSE b
Refill(b, t) ==
    IF ~b.exists
    THEN [exists |-> TRUE, remaining |-> capacity, windowStart |-> t, trips |-> 0]
    ELSE IF b.windowStart + window <= t
         THEN [b EXCEPT !.remaining = capacity, !.windowStart = t, !.trips = 0]
         ELSE b

AllowOneExtra(b, t) ==
    LET cur == Refill(b, t)
        dec == cur.remaining - 1
    IN  IF dec >= -1
        THEN [ok |-> TRUE, retryAfter |-> 0,
              bucket |-> [cur EXCEPT !.remaining = IF dec >= 0 THEN dec ELSE 0]]
        ELSE [ok |-> FALSE, retryAfter |-> cur.windowStart + window - t,
              bucket |-> cur]
\* Allow(key): consume one token, or undo and report when to retry
Allow(b, t) ==
    LET cur == Refill(b, t)
        dec == cur.remaining - 1
    IN  IF dec >= 0
        THEN [ok |-> TRUE, retryAfter |-> 0,
              bucket |-> [cur EXCEPT !.remaining = dec]]
        ELSE [ok |-> FALSE, retryAfter |-> cur.windowStart + window - t,
              bucket |-> cur]

(***************************************************************************)
(* The Patched Baseline pipeline for one asset: render, unmanaged check,   *)
(* root exclusion, override decoding, patch, mask, drift detection,        *)
(* throttle gate, apply.                                                   *)
(***************************************************************************)
AdoptableKindsPlusConfigMap ==
    {"HyperConverged", "CustomResourceDefinition", "ConfigMap"}
AdoptableKinds == {"HyperConverged", "CustomResourceDefinition"}

\* trips of the throttle inside one window after which the object is paused
EditWarThreshold == 2

HasOwnershipLabel(o) == Lookup(o.labels, ManagedByLabel) = ManagedByValue

\* the rendered template: the desired state before overrides
RenderAsset ==
    [labels |-> template.labels, annotations |-> NoAnnotations,
     data |-> template.data]

\* one RFC 6902 operation on the desired state; a replace needs the target
\* to exist, an add needs its parent to exist
ApplyOp(d, op) ==
    IF op.section = "data"
    THEN IF op.op = "replace" /\ op.key \notin DOMAIN d.data
         THEN [err |-> TRUE, obj |-> d]
         ELSE [err |-> FALSE, obj |-> [d EXCEPT !.data = With(d.data, op.key, op.value)]]
    ELSE IF d.labels = NoLabels
            \/ (op.op = "replace" /\ op.key \notin DOMAIN d.labels)
         THEN [err |-> TRUE, obj |-> d]
         ELSE [err |-> FALSE, obj |-> [d EXCEPT !.labels = With(d.labels, op.key, op.value)]]

RECURSIVE ApplyOps(_, _)
ApplyOps(d, ops) ==
    IF ops = <<>>
    THEN [err |-> FALSE, obj |-> d]
    ELSE LET first == ApplyOp(d, Head(ops))
         IN  IF first.err THEN first ELSE ApplyOps(first.obj, Tail(ops))

\* step 3: the user's patch applied to the rendered template in memory
ApplyJSONPatch(d, o) ==
    IF PatchAnnotation \notin DOMAIN o.annotations
    THEN [err |-> FALSE, obj |-> d]
    ELSE LET decoded == DecodePatch(o.annotations[PatchAnnotation])
         IN  IF decoded.err
             THEN [err |-> TRUE, obj |-> d]
             ELSE ApplyOps(d, decoded.ops)

\* the data keys the live object's ignore-fields annotation names
IgnoredKeys(o) ==
    IF AnnotationIgnoreFields \in DOMAIN o.annotations
    THEN DecodePointers(o.annotations[AnnotationIgnoreFields]).keys
    ELSE {}

\* step 4: copy the live value over the desired value at every ignored
\* pointer; a pointer missing in live is a no-op
MaskIgnoredFieldsNoop(d, o) == d
MaskIgnoredFields(d, o) ==
    LET masked == IgnoredKeys(o) \cap DOMAIN o.data
    IN  [d EXCEPT !.data = [k \in DOMAIN d.data \cup masked |->
                              IF k \in masked THEN o.data[k] ELSE d.data[k]]]

\* applier step 1: stamp the ownership label onto the desired state
StampLabelIfMissing(d) ==
    IF ManagedByLabel \in DOMAIN d.labels
    THEN d
    ELSE [d EXCEPT !.labels = With(d.labels, ManagedByLabel, ManagedByValue)]
StampLabel(d) ==
    [d EXCEPT !.labels = With(d.labels, ManagedByLabel, ManagedByValue)]

\* adoption decision: may the applier write to the fetched object?
AdoptionPermitted(o) ==
    ~o.exists \/ HasOwnershipLabel(o) \/ asset.kind \in AdoptableKinds

\* Server-Side Apply with force: the fields of d win, all others stay
ServerSideApplyFirstFieldOnly(o, d) ==
    Object(asset.kind, Merge(o.labels, d.labels),
           Merge(o.annotations, d.annotations),
           [x \in DOMAIN o.data \cup DOMAIN d.data |->
              IF x \in DOMAIN d.data /\ (x = "a" \/ x \notin DOMAIN o.data)
              THEN d.data[x]
              ELSE o.data[x]])
ServerSideApply(o, d) ==
    Object(asset.kind, Merge(o.labels, d.labels),
           Merge(o.annotations, d.annotations), Merge(o.data, d.data))

\* dry-run apply compared with live
HasDriftAlways(o, d) == TRUE
HasDrift(o, d) == ~o.exists \/ ServerSideApply(o, d) # o

\* the desired state the pipeline computes against a fetched object
Desired(o) == StampLabel(MaskIgnoredFields(ApplyJSONPatch(RenderAsset, o).obj, o))

Outcome(result, write, o, b, thr, retryAfter) ==
    [result |-> result, write |-> write, obj |-> o, bucket |-> b, thr |-> thr,
     retryAfter |-> retryAfter]

Skip(result) == Outcome(result, "none", live, bucket, "none", 0)

\* step 6 denied: count the trip; at the threshold the applier stamps
\* reconcile-paused onto the live object
Throttled(thr) ==
    LET trips == IF thr.bucket.trips < EditWarThreshold
                 THEN thr.bucket.trips + 1
                 ELSE EditWarThreshold
        b == [thr.bucket EXCEPT !.trips = trips]
    IN  IF trips >= EditWarThreshold /\ live.exists /\ AdoptionPermitted(live)
        THEN Outcome("Throttled", "pause",
                     ServerSideApply(live,
                        StampLabel([labels |-> NoLabels,
                                    annotations |->
                                       With(NoAnnotations, AnnotationReconcilePaused, "true"),
                                    data |-> NoData])),
                     b, "denied", thr.retryAfter)
        ELSE Outcome("Throttled", "none", live, b, "denied", thr.retryAfter)

\* step 7: the applier
Apply(d, thr, applyErr) ==
    IF ~AdoptionPermitted(live)
    THEN Outcome("AdoptionRefused", "none", live, thr.bucket, "admitted", 0)
    ELSE IF applyErr
    THEN Outcome("ApplyFailed", "none", live, thr.bucket, "admitted", 0)
    ELSE IF ~live.exists
    THEN Outcome("Created", "create", ServerSideApply(live, d), thr.bucket,
                 "admitted", 0)
    ELSE Outcome(IF HasOwnershipLabel(live) THEN "DriftCorrected" ELSE "Adopted",
                 "apply", ServerSideApply(live, d), thr.bucket, "admitted", 0)

\* a pipeline that takes a token before it looks for drift
ReconcileOutcomeGateFirst(applyErr) ==
    LET patched == ApplyJSONPatch(RenderAsset, live)
        d == Desired(live)
        thr == Allow(bucket, now)
    IN  IF IsUnmanaged(live) THEN Skip("UnmanagedMode")
        ELSE IF IsResourceExcluded(asset.kind, asset.name,
                                   ParseDisabledResources(hcoDisabled))
        THEN Skip("Excluded")
        ELSE IF IsPaused(live) THEN Skip("Paused")
        ELSE IF live.exists /\ ~ValidateAnnotations(live) THEN Skip("InvalidPatch")
        ELSE IF patched.err THEN Skip("InvalidPatch")
        ELSE IF ~thr.ok THEN Throttled(thr)
        ELSE IF ~HasDrift(live, d)
        THEN Outcome("Unchanged", "none", live, thr.bucket, "admitted", 0)
        ELSE Apply(d, thr, applyErr)

\* the whole pipeline for the asset
ReconcileOutcome(applyErr) ==
    LET patched == ApplyJSONPatch(RenderAsset, live)
        d == Desired(live)
        thr == Allow(bucket, now)
    IN  IF IsUnmanaged(live) THEN Skip("UnmanagedMode")
        ELSE IF IsResourceExcluded(asset.kind, asset.name,
                                   ParseDisabledResources(hcoDisabled))
        THEN Skip("Excluded")
        ELSE IF IsPaused(live) THEN Skip("Paused")
        ELSE IF live.exists /\ ~ValidateAnnotations(live) THEN Skip("InvalidPatch")
        ELSE IF patched.err THEN Skip("InvalidPatch")
        ELSE IF ~HasDrift(live, d) THEN Skip("Unchanged")
        ELSE IF ~thr.ok THEN Throttled(thr)
        ELSE Apply(d, thr, applyErr)

NoLast == [result |-> "none", write |-> "none", live |-> NilObject,
           prev |-> "none", thr |-> "none", retryAfter |-> 0]

ReconcileCore(applyErr) ==
    LET out == ReconcileOutcome(applyErr)
    IN  /\ live' = out.obj
        /\ bucket' = out.bucket
        /\ last' = [result |-> out.result, write |-> out.write, live |-> live,
                    prev |-> last.result, thr |-> out.thr,
                    retryAfter |-> out.retryAfter]
        /\ UNCHANGED <<asset, template, hcoDisabled, capacity, window, now>>
        /\ UNCHANGED <<tombVars, coreVars, extVars>>

ReconcileAsset ==
    /\ \E applyErr \in BOOLEAN : ReconcileCore(applyErr)
    /\ UNCHANGED histVars

\* a reconciliation against an API server that accepts the apply
ReconcileAssetOk ==
    /\ ReconcileCore(FALSE)
    /\ UNCHANGED histVars

(***************************************************************************)
(* Other actors on the managed object (users, peer controllers) and time.  *)
(***************************************************************************)
ObjectLabelMaps == {NoLabels, ManagedLabels(ManagedByValue),
                    ManagedLabels("some-other-operator")}
DataKeys == {"a", "b"}
DataValues == {"1", "2"}
AnnotationValues ==
    [k \in {PatchAnnotation, AnnotationIgnoreFields, AnnotationMode,
            AnnotationReconcilePaused} |->
       CASE k = PatchAnnotation -> {PatchSetA, PatchSetLabel, PatchNotJSON}
         [] k = AnnotationIgnoreFields -> {PointerA, PointerMissing, PointerNoSlash}
         [] k = AnnotationMode -> {ModeUnmanaged, "managed"}
         [] OTHER -> {"true"}]

EnvFrame ==
    /\ last' = NoLast
    /\ UNCHANGED <<asset, template, hcoDisabled>>
    /\ UNCHANGED <<thrVars, histVars, tombVars, coreVars, extVars>>

EnvCreate ==
    /\ ~live.exists
    /\ \E l \in ObjectLabelMaps, v \in DataValues :
          live' = Object(asset.kind, l, NoAnnotations, [k \in DataKeys |-> v])
    /\ EnvFrame

EnvDelete ==
    /\ live.exists
    /\ live' = NilObject
    /\ EnvFrame

EnvSetLabels ==
    /\ live.exists
    /\ \E l \in ObjectLabelMaps :
          /\ l # live.labels
          /\ live' = [live EXCEPT !.labels = l]
    /\ EnvFrame

EnvAnnotate ==
    /\ live.exists
    /\ \E k \in DOMAIN AnnotationValues :
          \E v \in AnnotationValues[k] :
             /\ Lookup(live.annotations, k) # v \/ k \notin DOMAIN live.annotations
             /\ live' = [live EXCEPT !.annotations = With(live.annotations, k, v)]
    /\ EnvFrame

EnvUnannotate ==
    /\ live.exists
    /\ \E k \in DOMAIN live.annotations :
          live' = [live EXCEPT !.annotations = Without(live.annotations, k)]
    /\ EnvFrame

EnvSetData ==
    /\ live.exists
    /\ \E k \in DataKeys, v \in DataValues :
          /\ Lookup(live.data, k) # v
          /\ live' = [live EXCEPT !.data = With(live.data, k, v)]
    /\ EnvFrame

\* the clock advances; the cluster does not change
Tick(step, max) ==
    /\ now + step <= max
    /\ now' = now + step
    /\ UNCHANGED <<capacity, window, bucket>>
    /\ UNCHANGED <<pipeVars, histVars, tombVars, coreVars, extVars>>

(***************************************************************************)
(* Reconciler core: one reconciliation of the HCO key.  Fetch the HCO,     *)
(* check the opt-in annotation, build the render context, run the          *)
(* pipeline for every catalog asset in reconcile order (refreshing the     *)
(* HCO and the context after order 0), then run the tombstone reconciler.  *)
(***************************************************************************)
AnnotationAutopilotEnabled == "platform.kubevirt.io/autopilot"

\* the HCO: hco.rv is its resourceVersion, which every write advances
HCO(exists, annotations, rv) ==
    [exists |-> exists, annotations |-> annotations, rv |-> rv]

IsAutopilotEnabledAnyCase(h) ==
    IF ~h.exists
    THEN FALSE
    ELSE IF h.annotations = NoAnnotations
    THEN FALSE
    ELSE Lookup(h.annotations, AnnotationAutopilotEnabled) \in {"true", "True"}
IsAutopilotEnabled(h) ==
    IF ~h.exists
    THEN FALSE
    ELSE IF h.annotations = NoAnnotations
    THEN FALSE
    ELSE Lookup(h.annotations, AnnotationAutopilotEnabled) = "true"

\* asset names are sequences of letters, compared as Go compares strings
CharCode == [c \in {"a", "b", "h", "z"} |->
               CASE c = "a" -> 97 [] c = "b" -> 98 [] c = "h" -> 104 [] OTHER -> 122]

RECURSIVE StringLess(_, _)
StringLess(s, t) ==
    IF t = <<>> THEN FALSE
    ELSE IF s = <<>> THEN TRUE
    ELSE IF Head(s) = Head(t) THEN StringLess(Tail(s), Tail(t))
    ELSE CharCode[Head(s)] < CharCode[Head(t)]

AssetMetadata(name, order) == [name |-> name, order |-> order]

\* the order of processing: reconcile_order, then name
AssetLessByOrderOnly(x, y) == x.order < y.order
AssetLess(x, y) ==
    \/ x.order < y.order
    \/ x.order = y.order /\ StringLess(x.name, y.name)

RECURSIVE InsertAsset(_, _)
InsertAsset(x, sorted) ==
    IF sorted = <<>> THEN <<x>>
    ELSE IF AssetLess(Head(sorted), x)
    THEN <<Head(sorted)>> \o InsertAsset(x, Tail(sorted))
    ELSE <<x>> \o sorted

\* a sorted copy of the catalog; entries that compare equal keep their
\* declared order
RECURSIVE ListAssetsByReconcileOrder(_)
ListAssetsByReconcileOrder(cat) ==
    IF cat = <<>> THEN <<>>
    ELSE InsertAsset(Head(cat), ListAssetsByReconcileOrder(Tail(cat)))

\* what the pipeline reports for one asset
AssetResults == {"Applied", "Unchanged", "InvalidPatch", "CRDMissing",
                 "RenderFailed", "ApplyFailed", "Throttled"}
\* results the pipeline returns as an error
IsError(result) == result \in {"RenderFailed", "ApplyFailed"}
\* results that are a failure of the asset
IsFailure(result) == result \notin {"Applied", "Unchanged"}

\* requeue intervals in seconds: the periodic one and a throttle's retryAfter
PeriodicRequeue == 300
ThrottleRetryAfter == 30

\* the render context built from a fetched HCO
BuildContext(h) == [rv |-> h.rv, annotations |-> h.annotations]
NoContext == [rv |-> 0, annotations |-> NoAnnotations]

\* the context for the assets after the one just processed
ContextAfterKeepsContext(order, ctx, fetched) == ctx
ContextAfter(order, ctx, fetched) ==
    IF order = 0 THEN BuildContext(fetched) ELSE ctx

\* the assets left after the one just processed
NextTodoStopsOnFailure(todo, failed) == IF failed THEN <<>> ELSE Tail(todo)
NextTodo(todo, failed) == Tail(todo)

\* resourceVersions of the HCO run from 0 to MaxRv
MaxRv == 2

NoReturn == [ran |-> FALSE, aborted |-> FALSE, err |-> FALSE, requeueAfter |-> 0]

\* Reconcile, steps 1-3: fetch the HCO, check the opt-in, build the context
ReconcileBegin ==
    /\ rcPc = "idle"
    /\ tsPc = "idle"
    /\ rcSeen' = hco
    /\ rcTrace' = <<>>
    /\ rcErrs' = 0
    /\ rcRetry' = PeriodicRequeue
    /\ IF ~hco.exists \/ ~IsAutopilotEnabled(hco)
       THEN /\ rcPc' = "idle"
            /\ rcTodo' = <<>>
            /\ rcCtx' = NoContext
            /\ rcRet' = NoReturn
       ELSE /\ rcTodo' = ListAssetsByReconcileOrder(catalog)
            /\ rcPc' = IF rcTodo' = <<>> THEN "tombstones" ELSE "assets"
            /\ rcCtx' = BuildContext(hco)
            /\ rcRet' = NoReturn
    /\ UNCHANGED <<hco, catalog>>
    /\ UNCHANGED <<tombVars, pipeVars, thrVars, histVars, extVars>>

\* Reconcile, step 4 for one asset: the pipeline's result is any of
\* AssetResults; an apply of the order-0 asset writes the HCO; after order
\* 0 the HCO is fetched again and the context rebuilt
ProcessAsset ==
    /\ rcPc = "assets"
    /\ rcTodo # <<>>
    /\ \E result \in AssetResults :
          LET a == Head(rcTodo)
              wrote == result = "Applied" /\ a.order = 0
              applied == IF wrote
                         THEN HCO(TRUE, hco.annotations, hco.rv + 1)
                         ELSE hco
              todo == NextTodo(rcTodo, IsFailure(result))
          IN  /\ wrote => hco.rv < MaxRv
              /\ hco' = applied
              /\ rcTrace' = Append(rcTrace,
                                   [name |-> a.name, order |-> a.order,
                                    result |-> result, ctxRv |-> rcCtx.rv,
                                    hcoRv |-> IF a.order = 0 THEN applied.rv
                                              ELSE 0])
              /\ rcErrs' = IF IsError(result) THEN rcErrs + 1 ELSE rcErrs
              /\ rcRetry' = IF result = "Throttled"
                            THEN IF rcRetry <= ThrottleRetryAfter
                                 THEN rcRetry
                                 ELSE ThrottleRetryAfter
                            ELSE rcRetry
              /\ IF a.order = 0 /\ ~applied.exists
                 THEN \* the HCO is gone: the reconciliation is abandoned
                      /\ rcPc' = "idle"
                      /\ rcTodo' = <<>>
                      /\ rcRet' = [ran |-> TRUE, aborted |-> TRUE, err |-> TRUE,
                                   requeueAfter |-> 0]
                      /\ UNCHANGED rcCtx
                 ELSE /\ rcCtx' = ContextAfter(a.order, rcCtx, applied)
                      /\ rcTodo' = todo
                      /\ rcPc' = IF todo = <<>> THEN "tombstones" ELSE "assets"
                      /\ UNCHANGED rcRet
    /\ UNCHANGED <<catalog, rcSeen>>
    /\ UNCHANGED <<tombVars, pipeVars, thrVars, histVars, extVars>>

\* Reconcile, step 5: the tombstone reconciler, called after all assets
CoreTombstones ==
    /\ rcPc = "tombstones"
    /\ ReconcileTombstones
    /\ rcPc' = "returning"
    /\ UNCHANGED <<hco, catalog, rcSeen, rcCtx, rcTodo, rcTrace, rcErrs,
                   rcRetry, rcRet>>

\* a return that also updates the HCO
ReconcileReturnUpdatesHCO ==
    /\ rcPc = "returning"
    /\ tsPc = "idle"
    /\ hco.rv < MaxRv
    /\ rcRet' = [ran |-> TRUE, aborted |-> FALSE,
                 err |-> rcErrs > 0 \/ tsRet.err, requeueAfter |-> rcRetry]
    /\ rcPc' = "idle"
    /\ hco' = HCO(hco.exists, hco.annotations, hco.rv + 1)
    /\ UNCHANGED <<catalog, rcSeen, rcCtx, rcTodo, rcTrace, rcErrs, rcRetry>>
    /\ UNCHANGED <<tombVars, pipeVars, thrVars, histVars, extVars>>

\* Reconcile, step 6: the aggregated error and the requeue interval
ReconcileReturn ==
    /\ rcPc = "returning"
    /\ tsPc = "idle"
    /\ rcRet' = [ran |-> TRUE, aborted |-> FALSE,
                 err |-> rcErrs > 0 \/ tsRet.err, requeueAfter |-> rcRetry]
    /\ rcPc' = "idle"
    /\ UNCHANGED <<hco, catalog, rcSeen, rcCtx, rcTodo, rcTrace, rcErrs, rcRetry>>
    /\ UNCHANGED <<tombVars, pipeVars, thrVars, histVars, extVars>>

\* other actors on the HCO
HCOAnnotationMaps ==
    {NoAnnotations} \cup
    {With(NoAnnotations, AnnotationAutopilotEnabled, v) : v \in {"true", "True"}}

EnvHCOSet ==
    /\ hco.rv < MaxRv
    /\ \E m \in HCOAnnotationMaps :
          /\ ~hco.exists \/ hco.annotations # m
          /\ hco' = HCO(TRUE, m, hco.rv + 1)
    /\ UNCHANGED <<catalog, rcPc, rcSeen, rcCtx, rcTodo, rcTrace, rcErrs,
                   rcRetry, rcRet>>
    /\ UNCHANGED <<tombVars, pipeVars, thrVars, histVars, extVars>>

EnvHCODelete ==
    /\ hco.rv < MaxRv
    /\ hco.exists
    /\ hco' = HCO(FALSE, NoAnnotations, hco.rv + 1)
    /\ UNCHANGED <<catalog, rcPc, rcSeen, rcCtx, rcTodo, rcTrace, rcErrs,
                   rcRetry, rcRet>>
    /\ UNCHANGED <<tombVars, pipeVars, thrVars, histVars, extVars>>

(***************************************************************************)
(* Initial states.                                                         *)
(***************************************************************************)
IdleTombstone ==
    /\ tsFiles = <<>>
    /\ recorderSet = FALSE
    /\ tcluster = [k \in TombKeys |-> Absent]
    /\ tsPc = "idle"
    /\ tsList = <<>>
    /\ tsIdx = 0
    /\ tsLive = NoLabels
    /\ deletedCount = 0
    /\ aggregatedErrors = 0
    /\ tsOutcome = <<>>
    /\ tsRet = [count |-> 0, err |-> FALSE, loadErr |-> FALSE]
    /\ tsQuiet = NoQuiet
    /\ tsPrev = <<>>

Setup(kind, name, labels, disabled) ==
    [asset |-> [kind |-> kind, name |-> name],
     template |-> [labels |-> labels, data |-> [k \in DataKeys |-> "1"]],
     hcoDisabled |-> disabled]

SetupHCO == Setup("HyperConverged", "kubevirt-hyperconverged", NoLabels, <<>>)
SetupMC == Setup("MachineConfig", "50-swap-enable",
                 ManagedLabels(ManagedByValue), <<>>)
SetupCM == Setup("ConfigMap", "test-config",
                 ManagedLabels("some-other-operator"),
                 <<"ConfigMap", Slash, "other-config">>)

IdlePipeline ==
    /\ asset = SetupCM.asset
    /\ template = SetupCM.template
    /\ hcoDisabled = <<>>
    /\ live = NilObject
    /\ last = NoLast

IdleCore ==
    /\ hco = HCO(FALSE, NoAnnotations, 0)
    /\ catalog = <<>>
    /\ rcPc = "idle"
    /\ rcSeen = HCO(FALSE, NoAnnotations, 0)
    /\ rcCtx = NoContext
    /\ rcTodo = <<>>
    /\ rcTrace = <<>>
    /\ rcErrs = 0
    /\ rcRetry = 0
    /\ rcRet = NoReturn

IdleFn ==
    /\ fnIn = <<>>
    /\ fnOut = <<>>

NoProc == [pc |-> "none", exit |-> 0, check |-> "none", shutdownFn |-> FALSE,
           cancelled |-> FALSE, triggered |-> FALSE]
NoCRDEvent == [crd |-> "", established |-> FALSE, managed |-> FALSE,
               watched |-> FALSE, shutdown |-> FALSE]

IdleProc ==
    /\ proc = NoProc
    /\ watchedCRDs = {}
    /\ crdEvent = NoCRDEvent

IdleConc ==
    /\ th = <<>>
    /\ locks = <<>>
    /\ conc = <<>>

IdleExt ==
    /\ IdleFn
    /\ IdleProc
    /\ IdleConc

IdleThrottle ==
    /\ capacity = DefaultCapacity
    /\ window = DefaultWindow
    /\ bucket = NoBucket
    /\ now = 0
    /\ thrCalls = 0
    /\ admits = <<>>

InitTombstone ==
    /\ tsFiles \in TombstoneFileSets
    /\ recorderSet \in BOOLEAN
    /\ tcluster \in [TombKeys -> {Absent} \cup {Present(l) : l \in LabelMaps}]
    /\ tsPc = "idle"
    /\ tsList = <<>>
    /\ tsIdx = 0
    /\ tsLive = NoLabels
    /\ deletedCount = 0
    /\ aggregatedErrors = 0
    /\ tsOutcome = <<>>
    /\ tsRet = [count |-> 0, err |-> FALSE, loadErr |-> FALSE]
    /\ tsQuiet = NoQuiet
    /\ tsPrev = <<>>
    /\ IdlePipeline
    /\ IdleThrottle
    /\ IdleCore
    /\ IdleExt

NextTombstone ==
    \/ TombStart
    \/ TombGet
    \/ TombDelete
    \/ EnvTombSet
    \/ EnvTombRemove

SpecTombstone == InitTombstone /\ [][NextTombstone]_vars

(***************************************************************************)
(* The per-object pipeline under a small bucket.                           *)
(***************************************************************************)
PipelineCapacity == 2
PipelineWindow == 2
MaxNow == 2

Setups == {SetupHCO, SetupMC, SetupCM}

Init ==
    /\ IdleTombstone
    /\ \E su \in Setups :
          /\ asset = su.asset
          /\ template = su.template
          /\ hcoDisabled = su.hcoDisabled
    /\ live = NilObject
    /\ last = NoLast
    /\ capacity = PipelineCapacity
    /\ window = PipelineWindow
    /\ bucket = NoBucket
    /\ now = 0
    /\ thrCalls = 0
    /\ admits = <<>>
    /\ IdleCore
    /\ IdleExt

TickPipeline == Tick(PipelineWindow, MaxNow)

Next ==
    \/ ReconcileAsset
    \/ EnvCreate
    \/ EnvDelete
    \/ EnvSetLabels
    \/ EnvAnnotate
    \/ EnvUnannotate
    \/ EnvSetData
    \/ TickPipeline

Spec == Init /\ [][Next]_vars

(***************************************************************************)
(* Root exclusion: the pipeline run once against every short annotation    *)
(* text over the alphabet below, for assets whose kind differs in case.    *)
(***************************************************************************)
MaxAnnLen == 5
AnnAlphabet == {"A", "a", Slash, Comma, Space}
AnnTexts == UNION {[1..n -> AnnAlphabet] : n \in 0..MaxAnnLen}
ExclusionSetups == {Setup(kind, "a", NoLabels, text) :
                       kind \in {"A", "a"}, text \in AnnTexts}

InitExclusion ==
    /\ IdleTombstone
    /\ \E su \in ExclusionSetups :
          /\ asset = su.asset
          /\ template = su.template
          /\ hcoDisabled = su.hcoDisabled
    /\ live = NilObject
    /\ last = NoLast
    /\ IdleThrottle
    /\ IdleCore
    /\ IdleExt

NextExclusion == ReconcileAssetOk

SpecExclusion == InitExclusion /\ [][NextExclusion]_vars

(***************************************************************************)
(* The throttle with its default bucket, driven by reconciliations of an   *)
(* object that other actors keep editing.  thrCalls and admits record the  *)
(* Allow calls for the properties below.                                   *)
(***************************************************************************)
TickStep == 20
MaxTime == 140
MaxCalls == 7

\* admits not older than one window length at time t
Recent(times, t) == SelectSeq(times, LAMBDA x : x > t - window)

ReconcileTracked ==
    /\ thrCalls < MaxCalls
    /\ ReconcileCore(FALSE)
    /\ thrCalls' = IF last'.thr = "none"
                   THEN thrCalls
                   ELSE IF ~bucket.exists \/ bucket'.windowStart # bucket.windowStart
                        THEN 1
                        ELSE thrCalls + 1
    /\ admits' = IF last'.thr = "admitted"
                 THEN Append(Recent(admits, now), now)
                 ELSE admits

TickThrottle == Tick(TickStep, MaxTime)

InitThrottle ==
    /\ IdleTombstone
    /\ asset = SetupCM.asset
    /\ template = SetupCM.template
    /\ hcoDisabled = SetupCM.hcoDisabled
    /\ live = Object("ConfigMap", ManagedLabels(ManagedByValue), NoAnnotations,
                     SetupCM.template.data)
    /\ last = NoLast
    /\ IdleThrottle
    /\ IdleCore
    /\ IdleExt

NextThrottle ==
    \/ ReconcileTracked
    \/ EnvSetData
    \/ EnvUnannotate
    \/ TickThrottle

SpecThrottle == InitThrottle /\ [][NextThrottle]_vars

(***************************************************************************)
(* The reconciler core over small catalogs, with other actors editing the  *)
(* HCO while reconciliations run.                                          *)
(***************************************************************************)
\* catalogs in declared order; each has the HCO asset "h", alone at order 0
Catalogs ==
    { <<AssetMetadata(<<"h">>, 0), AssetMetadata(<<"b">>, 5),
        AssetMetadata(<<"a">>, 5)>>,
      <<AssetMetadata(<<"a", "a">>, 10), AssetMetadata(<<"a", "b">>, 5),
        AssetMetadata(<<"h">>, 0)>>,
      <<AssetMetadata(<<"a", "b">>, 5), AssetMetadata(<<"h">>, 0),
        AssetMetadata(<<"a">>, 5)>> }

InitCore ==
    /\ tsFiles = <<DeclCM>>
    /\ recorderSet = TRUE
    /\ tcluster = [k \in TombKeys |->
                     IF k = ObjKey(DeclCM)
                     THEN Present(ManagedLabels(TombstoneLabelValue))
                     ELSE Present(ManagedLabels("some-other-operator"))]
    /\ tsPc = "idle"
    /\ tsList = <<>>
    /\ tsIdx = 0
    /\ tsLive = NoLabels
    /\ deletedCount = 0
    /\ aggregatedErrors = 0
    /\ tsOutcome = <<>>
    /\ tsRet = [count |-> 0, err |-> FALSE, loadErr |-> FALSE]
    /\ tsQuiet = NoQuiet
    /\ tsPrev = <<>>
    /\ IdlePipeline
    /\ IdleThrottle
    /\ hco \in {HCO(FALSE, NoAnnotations, 0)} \cup
               {HCO(TRUE, m, 0) : m \in HCOAnnotationMaps}
    /\ catalog \in Catalogs
    /\ rcPc = "idle"
    /\ rcSeen = HCO(FALSE, NoAnnotations, 0)
    /\ rcCtx = NoContext
    /\ rcTodo = <<>>
    /\ rcTrace = <<>>
    /\ rcErrs = 0
    /\ rcRetry = 0
    /\ rcRet = NoReturn
    /\ IdleExt

NextCore ==
    \/ ReconcileBegin
    \/ ProcessAsset
    \/ CoreTombstones
    \/ TombGet
    \/ TombDelete
    \/ ReconcileReturn
    \/ EnvHCOSet
    \/ EnvHCODelete

SpecCore == InitCore /\ [][NextCore]_vars

(***************************************************************************)
(* validateTombstone applied to one declaration drawn from every           *)
(* combination of present and missing fields and labels.                   *)
(***************************************************************************)
IdleBase ==
    /\ IdleTombstone
    /\ IdlePipeline
    /\ IdleThrottle
    /\ IdleCore

DeclLabelMaps ==
    LabelMaps \cup
    { [k \in {"app"} |-> "virt"],
      [k \in {"app", TombstoneLabel} |->
         IF k = "app" THEN "virt" ELSE TombstoneLabelValue] }

Declarations ==
    { Decl(kind, apiVersion, ns, name, labels) :
        kind \in {"", "ConfigMap"}, apiVersion \in {"", "v1"},
        ns \in {"", "default"}, name \in {"", "test-config"},
        labels \in DeclLabelMaps }

\* LoadTombstones' walk over a file system holding the one declaration
ValidateDeclaration ==
    /\ fnOut = <<>>
    /\ fnOut' = << [accepted |-> validateTombstone(fnIn),
                    loadErr |-> LoadTombstones(<<fnIn>>).err] >>
    /\ UNCHANGED <<fnIn, procVars, concVars>>
    /\ UNCHANGED <<tombVars, pipeVars, thrVars, histVars, coreVars>>

InitValidate ==
    /\ IdleBase
    /\ fnIn \in Declarations
    /\ fnOut = <<>>
    /\ IdleProc
    /\ IdleConc

NextValidate == ValidateDeclaration

SpecValidate == InitValidate /\ [][NextValidate]_vars

(***************************************************************************)
(* The process: runController from its startup check to the return of      *)
(* mgr.Start, with the reconciler's CRD event handling and shutdown hook.   *)
(* The manager delivers reconcile requests and CRD events while it runs    *)
(* and its context is not cancelled.                                       *)
(***************************************************************************)
HCOCRD == "hyperconvergeds.hco.kubevirt.io"

ManagedCRDs ==
    { "machineconfigs.machineconfiguration.openshift.io",
      "kubeletconfigs.machineconfiguration.openshift.io",
      "nodehealthchecks.remediation.medik8s.io",
      "forkliftcontrollers.forklift.konveyor.io",
      "metallbs.metallb.io",
      "uiplugins.console.openshift.io",
      "kubedeschedulers.operator.openshift.io",
      HCOCRD }

\* CRD names that events are delivered for
CRDNames ==
    { HCOCRD, "machineconfigs.machineconfiguration.openshift.io",
      "metallbs.metallb.io", "randomcrds.example.com", "machineconfig", "" }

isManagedCRD(crdName) == crdName \in ManagedCRDs

isWatchedCRD(crdName) == crdName \in watchedCRDs

\* what crdChecker.IsCRDInstalled can answer within its deadline
CRDCheckResults == {"installed", "absent", "error", "timeout"}

ExitOK == 0
ExitError == 1

\* runController returned: main exits 1 on an error, 0 otherwise
Returned(p, isErr) ==
    [p EXCEPT !.pc = "exited", !.exit = IF isErr THEN ExitError ELSE ExitOK]

\* TRUE when runController goes on after the HCO CRD validation: the
\* check returned no error and found the CRD
CheckPassedUnlessAbsent(check) == check # "absent"
CheckPassed(check) == check = "installed"

\* runController up to the HCO CRD validation
RunControllerValidate ==
    /\ proc.pc = "start"
    /\ \E managerErr \in BOOLEAN, check \in CRDCheckResults :
         proc' = IF managerErr
                 THEN Returned(proc, TRUE)
                 ELSE IF ~CheckPassed(check)
                 THEN Returned([proc EXCEPT !.check = check], TRUE)
                 ELSE [proc EXCEPT !.pc = "setup", !.check = check]
    /\ UNCHANGED <<watchedCRDs, crdEvent, fnVars, concVars>>
    /\ UNCHANGED <<tombVars, pipeVars, thrVars, histVars, coreVars>>

\* runController from NewPlatformReconciler to the call of mgr.Start; the
\* kinds whose CRD is established at this time get their watch
RunControllerSetup ==
    /\ proc.pc = "setup"
    /\ \E setupErr \in BOOLEAN, established \in SUBSET (CRDNames \ {HCOCRD}) :
         IF setupErr
         THEN /\ proc' = Returned(proc, TRUE)
              /\ UNCHANGED watchedCRDs
         ELSE /\ proc' = [proc EXCEPT !.pc = "running", !.shutdownFn = TRUE]
              /\ watchedCRDs' = {c \in established \cup {HCOCRD} : isManagedCRD(c)}
    /\ UNCHANGED <<crdEvent, fnVars, concVars>>
    /\ UNCHANGED <<tombVars, pipeVars, thrVars, histVars, coreVars>>

\* triggerShutdown: the installed function cancels the manager's context;
\* without one the process exits at once
triggerShutdown(p) ==
    IF p.shutdownFn
    THEN [p EXCEPT !.cancelled = TRUE, !.triggered = TRUE]
    ELSE [Returned(p, FALSE) EXCEPT !.triggered = TRUE]

\* the reconciler's decision on a CRD event
ShouldRestartIgnoresWatched(crdName, established) ==
    isManagedCRD(crdName) /\ established
ShouldRestart(crdName, established) ==
    isManagedCRD(crdName) /\ established /\ ~isWatchedCRD(crdName)

\* a CRD event reaches the reconciler
HandleCRDEvent ==
    /\ proc.pc = "running"
    /\ ~proc.cancelled
    /\ \E c \in CRDNames, established \in BOOLEAN :
         LET restart == ShouldRestart(c, established)
         IN  /\ crdEvent' = [crd |-> c, established |-> established,
                             managed |-> isManagedCRD(c),
                             watched |-> isWatchedCRD(c), shutdown |-> restart]
             /\ proc' = IF restart THEN triggerShutdown(proc) ELSE proc
    /\ UNCHANGED <<watchedCRDs, fnVars, concVars>>
    /\ UNCHANGED <<tombVars, pipeVars, thrVars, histVars, coreVars>>

\* a termination signal cancels the same context
Signal ==
    /\ proc.pc = "running"
    /\ ~proc.cancelled
    /\ proc' = [proc EXCEPT !.cancelled = TRUE]
    /\ UNCHANGED <<watchedCRDs, crdEvent, fnVars, concVars>>
    /\ UNCHANGED <<tombVars, pipeVars, thrVars, histVars, coreVars>>

\* a manager that reports the cancellation of its context as an error
ManagerStopWithError ==
    /\ proc.pc = "running"
    /\ proc.cancelled
    /\ rcPc = "idle"
    /\ proc' = Returned(proc, TRUE)
    /\ UNCHANGED <<watchedCRDs, crdEvent, fnVars, concVars>>
    /\ UNCHANGED <<tombVars, pipeVars, thrVars, histVars, coreVars>>
\* mgr.Start returns nil once its context is cancelled and the running
\* reconciliation has returned
ManagerStop ==
    /\ proc.pc = "running"
    /\ proc.cancelled
    /\ rcPc = "idle"
    /\ proc' = Returned(proc, FALSE)
    /\ UNCHANGED <<watchedCRDs, crdEvent, fnVars, concVars>>
    /\ UNCHANGED <<tombVars, pipeVars, thrVars, histVars, coreVars>>

\* mgr.Start returns an error: the manager failed while running
ManagerFail ==
    /\ proc.pc = "running"
    /\ ~proc.cancelled
    /\ proc' = Returned(proc, TRUE)
    /\ UNCHANGED <<watchedCRDs, crdEvent, fnVars, concVars>>
    /\ UNCHANGED <<tombVars, pipeVars, thrVars, histVars, coreVars>>

\* the manager hands a reconcile request to the reconciler
ManagerReconcile ==
    /\ proc.pc = "running"
    /\ ~proc.cancelled
    /\ ReconcileBegin

ProcessCatalog == <<AssetMetadata(<<"h">>, 0)>>

InitProcess ==
    /\ tsFiles \in {<<DeclCM>>, <<DeclNoKind>>}
    /\ recorderSet = TRUE
    /\ tcluster = [k \in TombKeys |->
                     IF k = ObjKey(DeclCM)
                     THEN Present(ManagedLabels(TombstoneLabelValue))
                     ELSE Absent]
    /\ tsPc = "idle"
    /\ tsList = <<>>
    /\ tsIdx = 0
    /\ tsLive = NoLabels
    /\ deletedCount = 0
    /\ aggregatedErrors = 0
    /\ tsOutcome = <<>>
    /\ tsRet = [count |-> 0, err |-> FALSE, loadErr |-> FALSE]
    /\ tsQuiet = NoQuiet
    /\ tsPrev = <<>>
    /\ IdlePipeline
    /\ IdleThrottle
    /\ hco = HCO(TRUE, With(NoAnnotations, AnnotationAutopilotEnabled, "true"), 0)
    /\ catalog = ProcessCatalog
    /\ rcPc = "idle"
    /\ rcSeen = HCO(FALSE, NoAnnotations, 0)
    /\ rcCtx = NoContext
    /\ rcTodo = <<>>
    /\ rcTrace = <<>>
    /\ rcErrs = 0
    /\ rcRetry = 0
    /\ rcRet = NoReturn
    /\ IdleFn
    /\ proc = [NoProc EXCEPT !.pc = "start"]
    /\ watchedCRDs = {}
    /\ crdEvent = NoCRDEvent
    /\ IdleConc

\* the steps of a reconciliation the manager started
RunProcessAsset == proc.pc = "running" /\ ProcessAsset
RunCoreTombstones == proc.pc = "running" /\ CoreTombstones
RunTombGet == proc.pc = "running" /\ TombGet
RunTombDelete == proc.pc = "running" /\ TombDelete
RunReconcileReturn == proc.pc = "running" /\ ReconcileReturn

NextProcess ==
    \/ RunControllerValidate
    \/ RunControllerSetup
    \/ HandleCRDEvent
    \/ Signal
    \/ ManagerStop
    \/ ManagerFail
    \/ ManagerReconcile
    \/ RunProcessAsset
    \/ RunCoreTombstones
    \/ RunTombGet
    \/ RunTombDelete
    \/ RunReconcileReturn

SpecProcess == InitProcess /\ [][NextProcess]_vars

\* the scheduler keeps running the goroutines that can take a step
SpecProcessFair == SpecProcess /\ WF_vars(NextProcess)

(***************************************************************************)
(* Goroutines calling markCRDAsWatched and isWatchedCRD on one reconciler. *)
(* Both take the reconciler's mutex; markCRDAsWatched reads the map and    *)
(* writes it back with the new key.                                        *)
(***************************************************************************)
Goroutines == {"g1", "g2"}

\* calls one goroutine makes
MaxGoCalls == 2

IdleGoroutine == [pc |-> "idle", op |-> "none", arg |-> "", local |-> {},
                  res |-> "none", pre |-> FALSE, calls |-> 0]

\* a goroutine enters a call
Enter(g, op, arg, pre) ==
    [th EXCEPT ![g] = [pc |-> "lock", op |-> op, arg |-> arg, local |-> {},
                       res |-> "none", pre |-> pre, calls |-> th[g].calls + 1]]

\* mu.Lock() returns when no goroutine holds the mutex
CanLockAlways(mu) == TRUE
CanLock(mu) == locks[mu] = "none"

WatchNames == {"test-crd", "crd1.example.com", ""}

\* a map rebuilt with the one key
markCRDAsWatchedReplaces(watched, crdName) == {crdName}
markCRDAsWatched(watched, crdName) == watched \cup {crdName}

WatchCall ==
    \E g \in Goroutines, op \in {"mark", "isWatched"}, crdName \in WatchNames :
        /\ th[g].pc = "idle"
        /\ th[g].calls < MaxGoCalls
        /\ th' = Enter(g, op, crdName, crdName \in conc.done)
        /\ conc' = IF op = "mark"
                   THEN [conc EXCEPT !.started = @ \cup {crdName}]
                   ELSE conc
        /\ UNCHANGED <<locks, watchedCRDs>>
        /\ UNCHANGED <<proc, crdEvent, fnVars>>
        /\ UNCHANGED <<tombVars, pipeVars, thrVars, histVars, coreVars>>

WatchLock ==
    \E g \in Goroutines :
        /\ th[g].pc = "lock"
        /\ CanLock("watchedCRDs")
        /\ locks' = [locks EXCEPT !["watchedCRDs"] = g]
        /\ th' = [th EXCEPT ![g].pc = IF th[g].op = "mark" THEN "load" ELSE "read"]
        /\ UNCHANGED <<conc, watchedCRDs>>
        /\ UNCHANGED <<proc, crdEvent, fnVars>>
        /\ UNCHANGED <<tombVars, pipeVars, thrVars, histVars, coreVars>>

\* isWatchedCRD under the lock
WatchRead ==
    \E g \in Goroutines :
        /\ th[g].pc = "read"
        /\ th' = [th EXCEPT ![g].pc = "unlock",
                            ![g].res = IF isWatchedCRD(th[g].arg)
                                       THEN "true" ELSE "false"]
        /\ UNCHANGED <<locks, conc, watchedCRDs>>
        /\ UNCHANGED <<proc, crdEvent, fnVars>>
        /\ UNCHANGED <<tombVars, pipeVars, thrVars, histVars, coreVars>>

\* markCRDAsWatched under the lock: the map is read ...
WatchLoad ==
    \E g \in Goroutines :
        /\ th[g].pc = "load"
        /\ th' = [th EXCEPT ![g].pc = "store", ![g].local = watchedCRDs]
        /\ UNCHANGED <<locks, conc, watchedCRDs>>
        /\ UNCHANGED <<proc, crdEvent, fnVars>>
        /\ UNCHANGED <<tombVars, pipeVars, thrVars, histVars, coreVars>>

\* ... and written with the key added
WatchStore ==
    \E g \in Goroutines :
        /\ th[g].pc = "store"
        /\ watchedCRDs' = markCRDAsWatched(th[g].local, th[g].arg)
        /\ th' = [th EXCEPT ![g].pc = "unlock"]
        /\ UNCHANGED <<locks, conc>>
        /\ UNCHANGED <<proc, crdEvent, fnVars>>
        /\ UNCHANGED <<tombVars, pipeVars, thrVars, histVars, coreVars>>

\* the call returns
WatchUnlock ==
    \E g \in Goroutines :
        /\ th[g].pc = "unlock"
        /\ locks' = [locks EXCEPT !["watchedCRDs"] = "none"]
        /\ th' = [th EXCEPT ![g].pc = "idle"]
        /\ conc' = IF th[g].op = "mark"
                   THEN [conc EXCEPT !.done = @ \cup {th[g].arg}]
                   ELSE conc
        /\ UNCHANGED watchedCRDs
        /\ UNCHANGED <<proc, crdEvent, fnVars>>
        /\ UNCHANGED <<tombVars, pipeVars, thrVars, histVars, coreVars>>

InitWatch ==
    /\ IdleBase
    /\ IdleFn
    /\ IdleProc
    /\ th = [g \in Goroutines |-> IdleGoroutine]
    /\ locks = [mu \in {"watchedCRDs"} |-> "none"]
    /\ conc = [started |-> {}, done |-> {}]

NextWatch ==
    \/ WatchCall
    \/ WatchLock
    \/ WatchRead
    \/ WatchLoad
    \/ WatchStore
    \/ WatchUnlock

SpecWatch == InitWatch /\ [][NextWatch]_vars

(***************************************************************************)
(* Goroutines calling Allow for one key.  The key's bucket is looked up,   *)
(* and created when missing, under the mutex of the key-to-bucket map;     *)
(* the tokens are then read and written under the bucket's own mutex.      *)
(*   conc.created  buckets created for the key                             *)
(*   conc.admitted calls admitted since the bucket's window last started   *)
(***************************************************************************)
ConcCapacity == 2
ConcWindow == 2
MaxConcNow == 3

\* what a step of an Allow call leaves alone
AllowFrame ==
    /\ UNCHANGED <<capacity, window, fnVars, procVars>>
    /\ UNCHANGED <<tombVars, pipeVars, histVars, coreVars>>

AllowCall ==
    \E g \in Goroutines :
        /\ th[g].pc = "idle"
        /\ th[g].calls < MaxGoCalls
        /\ th' = [Enter(g, "Allow", "", FALSE) EXCEPT ![g].local = NoBucket]
        /\ UNCHANGED <<locks, conc, bucket, now>>
        /\ AllowFrame

AllowMapLock ==
    \E g \in Goroutines :
        /\ th[g].pc = "lock"
        /\ CanLock("buckets")
        /\ locks' = [locks EXCEPT !["buckets"] = g]
        /\ th' = [th EXCEPT ![g].pc = "lookup"]
        /\ UNCHANGED <<conc, bucket, now>>
        /\ AllowFrame

\* the map is read for the key ...
AllowLookup ==
    \E g \in Goroutines :
        /\ th[g].pc = "lookup"
        /\ th' = [th EXCEPT ![g].pc = IF bucket.exists THEN "mapunlock"
                                      ELSE "create"]
        /\ UNCHANGED <<locks, conc, bucket, now>>
        /\ AllowFrame

\* ... and a full bucket is stored for a key that had none
AllowCreate ==
    \E g \in Goroutines :
        /\ th[g].pc = "create"
        /\ bucket' = Refill(NoBucket, now)
        /\ conc' = [created |-> conc.created + 1, admitted |-> 0,
                    windowStart |-> now]
        /\ th' = [th EXCEPT ![g].pc = "mapunlock"]
        /\ UNCHANGED <<locks, now>>
        /\ AllowFrame

AllowMapUnlock ==
    \E g \in Goroutines :
        /\ th[g].pc = "mapunlock"
        /\ locks' = [locks EXCEPT !["buckets"] = "none"]
        /\ th' = [th EXCEPT ![g].pc = "bucketlock"]
        /\ UNCHANGED <<conc, bucket, now>>
        /\ AllowFrame

AllowBucketLock ==
    \E g \in Goroutines :
        /\ th[g].pc = "bucketlock"
        /\ CanLock("bucket")
        /\ locks' = [locks EXCEPT !["bucket"] = g]
        /\ th' = [th EXCEPT ![g].pc = "load"]
        /\ UNCHANGED <<conc, bucket, now>>
        /\ AllowFrame

\* the bucket's fields are read ...
AllowLoad ==
    \E g \in Goroutines :
        /\ th[g].pc = "load"
        /\ th' = [th EXCEPT ![g].pc = "store", ![g].local = bucket]
        /\ UNCHANGED <<locks, conc, bucket, now>>
        /\ AllowFrame

\* ... and written: refilled when the window has expired, one token less
\* when the call is admitted
AllowStore ==
    \E g \in Goroutines :
        LET r == Allow(th[g].local, now)
            admitted == IF r.ok THEN 1 ELSE 0
        IN  /\ th[g].pc = "store"
            /\ bucket' = r.bucket
            /\ conc' = IF r.bucket.windowStart # conc.windowStart
                       THEN [conc EXCEPT !.admitted = admitted,
                                         !.windowStart = r.bucket.windowStart]
                       ELSE [conc EXCEPT !.admitted = @ + admitted]
            /\ th' = [th EXCEPT ![g].pc = "unlock",
                                ![g].res = IF r.ok THEN "true" ELSE "false"]
            /\ UNCHANGED <<locks, now>>
            /\ AllowFrame

AllowUnlock ==
    \E g \in Goroutines :
        /\ th[g].pc = "unlock"
        /\ locks' = [locks EXCEPT !["bucket"] = "none"]
        /\ th' = [th EXCEPT ![g].pc = "idle"]
        /\ UNCHANGED <<conc, bucket, now>>
        /\ AllowFrame

TickAllow == Tick(1, MaxConcNow)

InitAllow ==
    /\ IdleTombstone
    /\ IdlePipeline
    /\ IdleCore
    /\ IdleFn
    /\ IdleProc
    /\ capacity = ConcCapacity
    /\ window = ConcWindow
    /\ bucket = NoBucket
    /\ now = 0
    /\ thrCalls = 0
    /\ admits = <<>>
    /\ th = [g \in Goroutines |-> [IdleGoroutine EXCEPT !.local = NoBucket]]
    /\ locks = [mu \in {"buckets", "bucket"} |-> "none"]
    /\ conc = [created |-> 0, admitted |-> 0, windowStart |-> 0]

NextAllow ==
    \/ AllowCall
    \/ AllowMapLock
    \/ AllowLookup
    \/ AllowCreate
    \/ AllowMapUnlock
    \/ AllowBucketLock
    \/ AllowLoad
    \/ AllowStore
    \/ AllowUnlock
    \/ TickAllow

SpecAllow == InitAllow /\ [][NextAllow]_vars

(***************************************************************************)
(* Asset conditions (pkg/render/output.go CheckConditions), applied to     *)
(* condition lists and HCO annotations drawn from small sets.  The value   *)
(* of the feature-gates annotation is a text; a feature-gate condition's   *)
(* value is the text looked for in it.                                     *)
(***************************************************************************)
ConditionTypeAnnotation == "annotation"
ConditionTypeFeatureGate == "feature-gate"
ConditionTypeHardwareDetection == "hardware-detection"

AssetCondition(type, key, value, gate, detector) ==
    [type |-> type, key |-> key, value |-> value, gate |-> gate,
     detector |-> detector]

\* strings.Contains
Contains(s, substr) ==
    \E i \in 1..(Len(s) + 1) :
        /\ i + Len(substr) - 1 <= Len(s)
        /\ SubSeq(s, i, i + Len(substr) - 1) = substr

\* the loop of CheckConditions from the i-th condition on
RECURSIVE CheckFrom(_, _, _)
CheckFrom(conditions, i, renderCtx) ==
    IF i > Len(conditions)
    THEN TRUE
    ELSE LET condition == conditions[i]
         IN  IF condition.type = ConditionTypeAnnotation
             THEN IF Lookup(renderCtx.annotations, condition.key) # condition.value
                  THEN FALSE
                  ELSE CheckFrom(conditions, i + 1, renderCtx)
             ELSE IF condition.type = ConditionTypeFeatureGate
             THEN IF ~Contains(renderCtx.featureGates, condition.gate)
                  THEN FALSE
                  ELSE CheckFrom(conditions, i + 1, renderCtx)
             ELSE IF condition.type = ConditionTypeHardwareDetection
             THEN FALSE
             ELSE CheckFrom(conditions, i + 1, renderCtx)

\* a check that passes as soon as one condition is satisfied
CheckConditionsAny(conditions, renderCtx) ==
    \/ Len(conditions) = 0
    \/ \E i \in 1..Len(conditions) : CheckFrom(<<conditions[i]>>, 1, renderCtx)
CheckConditions(conditions, renderCtx) ==
    IF Len(conditions) = 0 THEN TRUE ELSE CheckFrom(conditions, 1, renderCtx)

\* longest condition list drawn
MaxConditions == 2

ConditionSet ==
    { AssetCondition(ConditionTypeAnnotation, "enable-gpu", "true", <<>>, ""),
      AssetCondition(ConditionTypeAnnotation, "enable-gpu", "", <<>>, ""),
      AssetCondition(ConditionTypeAnnotation, "missing-key", "", <<>>, ""),
      AssetCondition(ConditionTypeFeatureGate, "", "", <<"gpu", "-passthrough">>, ""),
      AssetCondition(ConditionTypeHardwareDetection, "", "", <<>>, "gpu") }

ConditionLists ==
    UNION { [1..n -> ConditionSet] : n \in 0..MaxConditions }

ConditionAnnotationMaps ==
    {NoAnnotations} \cup
    { [k \in {"enable-gpu"} |-> v] : v \in {"true", "false", "anything", ""} }

FeatureGateTexts ==
    { <<>>, <<"gpu", "-passthrough">>, <<"old-", "gpu", "-passthrough", "-v2">> }

\* HCO.spec.featureGates: the names of the enabled gates
SpecFeatureGates ==
    { {}, {<<"gpu", "-passthrough">>},
      {<<"old-", "gpu", "-passthrough", "-v2">>} }

EvaluateConditions ==
    /\ fnOut = <<>>
    /\ LET renderCtx == [annotations |-> fnIn.annotations,
                         featureGates |-> fnIn.featureGates]
       IN  fnOut' = << [satisfied |-> CheckConditions(fnIn.conditions, renderCtx),
                        each |-> [i \in 1..Len(fnIn.conditions) |->
                                    CheckConditions(<<fnIn.conditions[i]>>,
                                                    renderCtx)]] >>
    /\ UNCHANGED <<fnIn, procVars, concVars>>
    /\ UNCHANGED <<tombVars, pipeVars, thrVars, histVars, coreVars>>

InitConditions ==
    /\ IdleBase
    /\ IdleProc
    /\ IdleConc
    /\ fnIn \in [conditions : ConditionLists,
                 annotations : ConditionAnnotationMaps,
                 featureGates : FeatureGateTexts,
                 specGates : SpecFeatureGates]
    /\ fnOut = <<>>

NextConditions == EvaluateConditions

SpecConditions == InitConditions /\ [][NextConditions]_vars

(***************************************************************************)
(* Registry.ShouldApply with DefaultConditionEvaluator (pkg/assets), the   *)
(* controller's decision whether an asset is applied, and the catalog      *)
(* rule for opt-in assets, applied to assets and evaluators drawn from     *)
(* small sets.  The evaluator holds the HCO annotations, the enabled       *)
(* feature gates and the detected hardware.                                *)
(***************************************************************************)
InstallModeAlways == "always"
InstallModeOptIn == "opt-in"

Verdict(satisfied, isErr) == [satisfied |-> satisfied, err |-> isErr]

EvaluateCondition(condition, evaluator) ==
    IF condition.type = ConditionTypeHardwareDetection
    THEN IF condition.detector = ""
         THEN Verdict(FALSE, TRUE)
         ELSE Verdict(condition.detector \in evaluator.hardware, FALSE)
    ELSE IF condition.type = ConditionTypeFeatureGate
    THEN IF condition.gate = <<>>
         THEN Verdict(FALSE, TRUE)
         ELSE Verdict(condition.gate \in evaluator.featureGates, FALSE)
    ELSE IF condition.type = ConditionTypeAnnotation
    THEN IF condition.key = ""
         THEN Verdict(FALSE, TRUE)
         ELSE IF condition.key \notin DOMAIN evaluator.annotations
         THEN Verdict(FALSE, FALSE)
         ELSE IF condition.value = ""
         THEN Verdict(TRUE, FALSE)
         ELSE Verdict(evaluator.annotations[condition.key] = condition.value,
                      FALSE)
    ELSE Verdict(FALSE, TRUE)

RECURSIVE EvaluateFrom(_, _, _)
EvaluateFrom(conditions, i, evaluator) ==
    IF i > Len(conditions)
    THEN Verdict(TRUE, FALSE)
    ELSE LET v == EvaluateCondition(conditions[i], evaluator)
         IN  IF v.err \/ ~v.satisfied
             THEN Verdict(FALSE, v.err)
             ELSE EvaluateFrom(conditions, i + 1, evaluator)

\* an opt-in asset without conditions treated like an always asset
ShouldApplyIgnoresInstall(assetMeta, evaluator) ==
    EvaluateFrom(assetMeta.conditions, 1, evaluator)
ShouldApply(assetMeta, evaluator) ==
    IF Len(assetMeta.conditions) = 0
    THEN Verdict(assetMeta.install = InstallModeAlways, FALSE)
    ELSE EvaluateFrom(assetMeta.conditions, 1, evaluator)

\* the catalog rule: the opt-in assets of the catalog that have no condition
OptInViolations(assets) ==
    { i \in DOMAIN assets : /\ assets[i].install = InstallModeOptIn
                            /\ Len(assets[i].conditions) = 0 }

EvaluatorConditionSet ==
    ConditionSet \cup
    { AssetCondition("invalid-type", "", "", <<>>, ""),
      AssetCondition(ConditionTypeHardwareDetection, "", "", <<>>, "") }

EvaluatorConditionLists ==
    UNION { [1..n -> EvaluatorConditionSet] : n \in 0..MaxConditions }

HardwareContexts == { {}, {"gpu"} }

ShouldApplyAsset ==
    /\ fnOut = <<>>
    /\ LET evaluator == [annotations |-> fnIn.annotations,
                         featureGates |-> fnIn.specGates,
                         hardware |-> fnIn.hardware]
           assetMeta == [install |-> fnIn.install,
                         conditions |-> fnIn.conditions]
           r == ShouldApply(assetMeta, evaluator)
       IN  fnOut' = << [apply |-> r.satisfied, err |-> r.err,
                        violations |-> OptInViolations(<<assetMeta>>)] >>
    /\ UNCHANGED <<fnIn, procVars, concVars>>
    /\ UNCHANGED <<tombVars, pipeVars, thrVars, histVars, coreVars>>

InitShouldApply ==
    /\ IdleBase
    /\ IdleProc
    /\ IdleConc
    /\ fnIn \in [install : {InstallModeAlways, InstallModeOptIn},
                 conditions : EvaluatorConditionLists,
                 annotations : ConditionAnnotationMaps,
                 specGates : SpecFeatureGates,
                 hardware : HardwareContexts]
    /\ fnOut = <<>>

NextShouldApply == ShouldApplyAsset

SpecShouldApply == InitShouldApply /\ [][NextShouldApply]_vars

(***************************************************************************)
(* ValidateAnnotations (package overrides) applied to objects drawn from   *)
(* small sets of kinds and override annotations.                           *)
(***************************************************************************)
OverrideValues(k) ==
    IF k = PatchAnnotation THEN {PatchSetA, PatchNotJSON}
    ELSE IF k = AnnotationIgnoreFields THEN {PointerA, PointerNoSlash, ""}
    ELSE {ModeUnmanaged, "", "managed"}

OverrideAnnotationMaps ==
    UNION { { m \in [S -> {PatchSetA, PatchNotJSON, PointerA, PointerNoSlash,
                           ModeUnmanaged, "", "managed"}] :
                \A k \in S : m[k] \in OverrideValues(k) } :
            S \in SUBSET {PatchAnnotation, AnnotationIgnoreFields, AnnotationMode} }

OverrideObjects ==
    {NilObject} \cup
    { Object(kind, NoLabels, annotations, NoData) :
        kind \in {"ConfigMap", "MachineConfig", "ClusterRole"},
        annotations \in OverrideAnnotationMaps }

ValidateObject ==
    /\ fnOut = <<>>
    /\ fnOut' = << [accepted |-> ValidateAnnotations(fnIn)] >>
    /\ UNCHANGED <<fnIn, procVars, concVars>>
    /\ UNCHANGED <<tombVars, pipeVars, thrVars, histVars, coreVars>>

InitOverrides ==
    /\ IdleBase
    /\ IdleProc
    /\ IdleConc
    /\ fnIn \in OverrideObjects
    /\ fnOut = <<>>

NextOverrides == ValidateObject

SpecOverrides == InitOverrides /\ [][NextOverrides]_vars

(***************************************************************************)
(* FilterExcludedAssets (pkg/engine/exclusion.go) applied to asset lists   *)
(* and disabled maps drawn from small sets.  A map is the set of its keys; *)
(* the nil map and the empty map are both the empty set.                   *)
(***************************************************************************)
\* the loop of FilterExcludedAssets from the i-th asset on
RECURSIVE FilterFrom(_, _, _)
FilterFrom(assets, i, disabledMap) ==
    IF i > Len(assets)
    THEN <<>>
    ELSE LET key == ExclusionKey(assets[i].kind, assets[i].name)
             rest == FilterFrom(assets, i + 1, disabledMap)
         IN  IF key \in disabledMap THEN rest ELSE <<assets[i]>> \o rest

\* a filter that drops the first disabled asset only
FilterExcludedAssetsFirstOnly(assets, disabledMap) ==
    LET hits == { i \in 1..Len(assets) :
                    ExclusionKey(assets[i].kind, assets[i].name) \in disabledMap }
    IN  IF hits = {}
        THEN assets
        ELSE LET first == CHOOSE i \in hits : \A j \in hits : i <= j
             IN  SubSeq(assets, 1, first - 1) \o
                 SubSeq(assets, first + 1, Len(assets))
FilterExcludedAssets(assets, disabledMap) ==
    IF Cardinality(disabledMap) = 0
    THEN assets
    ELSE FilterFrom(assets, 1, disabledMap)

\* longest asset list drawn
MaxAssets == 3
\* most keys in a drawn disabled map
MaxDisabled == 2

FilterObjects ==
    { [kind |-> "ConfigMap", name |-> "config-1"],
      [kind |-> "ConfigMap", name |-> "config-2"],
      [kind |-> "Secret", name |-> "secret-1"] }

FilterAssetLists == UNION { [1..n -> FilterObjects] : n \in 0..MaxAssets }

DisabledKeys ==
    { ExclusionKey("ConfigMap", "config-1"), ExclusionKey("Secret", "secret-1"),
      ExclusionKey("configmap", "config-1"),
      ExclusionKey("ConfigMap", "nonexistent") }

DisabledMaps == { m \in SUBSET DisabledKeys : Cardinality(m) <= MaxDisabled }

FilterAssets ==
    /\ fnOut = <<>>
    /\ LET filtered == FilterExcludedAssets(fnIn.assets, fnIn.disabledMap)
       IN  fnOut' = << [filtered |-> filtered,
                        again |-> FilterExcludedAssets(filtered,
                                                       fnIn.disabledMap)] >>
    /\ UNCHANGED <<fnIn, procVars, concVars>>
    /\ UNCHANGED <<tombVars, pipeVars, thrVars, histVars, coreVars>>

InitFilter ==
    /\ IdleBase
    /\ IdleProc
    /\ IdleConc
    /\ fnIn \in [assets : FilterAssetLists, disabledMap : DisabledMaps]
    /\ fnOut = <<>>

NextFilter == FilterAssets

SpecFilter == InitFilter /\ [][NextFilter]_vars

(***************************************************************************)
(* BuildOutputs (pkg/render/output.go), the body of the render command and *)
(* of the debug render endpoints, applied to asset lists and HCOs drawn    *)
(* from small sets.  What the renderer returns for an asset (an error,     *)
(* nothing, or an object) is drawn with the asset.                         *)
(***************************************************************************)
DisabledResourcesAnnotation == "platform.kubevirt.io/disabled-resources"

NoRendered == [err |-> FALSE, exists |-> FALSE, kind |-> "", name |-> ""]
RenderError == [NoRendered EXCEPT !.err = TRUE]
Rendered(kind, name) == [err |-> FALSE, exists |-> TRUE, kind |-> kind,
                         name |-> name]

RenderOutput(assetMeta, status, reason, object) ==
    [asset |-> assetMeta.name, conditions |-> assetMeta.conditions,
     status |-> status, reason |-> reason, object |-> object]

\* the loop of BuildOutputs from the i-th asset on
RECURSIVE BuildFrom(_, _, _, _, _)
BuildFrom(assetList, i, renderCtx, showExcluded, exclusionRules) ==
    IF i > Len(assetList)
    THEN <<>>
    ELSE LET assetMeta == assetList[i]
             rendered == assetMeta.rendered
             rest == BuildFrom(assetList, i + 1, renderCtx, showExcluded,
                               exclusionRules)
             hidden(o) == IF showExcluded THEN <<o>> \o rest ELSE rest
         IN  IF ~CheckConditions(assetMeta.conditions, renderCtx)
             THEN hidden(RenderOutput(assetMeta, "EXCLUDED",
                                      "Conditions not met", NoRendered))
             ELSE IF rendered.err
             THEN <<RenderOutput(assetMeta, "ERROR", "render error",
                                 NoRendered)>> \o rest
             ELSE IF ~rendered.exists
             THEN hidden(RenderOutput(assetMeta, "EXCLUDED",
                                      "Conditional template rendered empty",
                                      NoRendered))
             ELSE IF IsResourceExcluded(rendered.kind, rendered.name,
                                        exclusionRules)
             THEN hidden(RenderOutput(assetMeta, "FILTERED",
                                      "Root exclusion (disabled-resources annotation)",
                                      NoRendered))
             ELSE <<RenderOutput(assetMeta, "INCLUDED", "", rendered)>> \o rest

\* the exclusion rules BuildOutputs parses once before the loop
ExclusionRules(renderCtx) ==
    IF renderCtx.disabled # <<>>
    THEN ParseDisabledResources(renderCtx.disabled)
    ELSE {}

\* outputs that leave out the assets whose rendering failed
BuildOutputsHidesErrors(assetList, renderCtx, showExcluded) ==
    LET all == BuildFrom(assetList, 1, renderCtx, showExcluded,
                         ExclusionRules(renderCtx))
    IN  IF showExcluded
        THEN all
        ELSE SelectSeq(all, LAMBDA o : o.status # "ERROR")
BuildOutputs(assetList, renderCtx, showExcluded) ==
    BuildFrom(assetList, 1, renderCtx, showExcluded, ExclusionRules(renderCtx))

(***************************************************************************)
(* What a reconciliation of the controller applies for the same catalog    *)
(* and HCO once the autopilot is enabled: the assets ShouldApply admits,   *)
(* that render to an object, and that root exclusion does not name.        *)
(***************************************************************************)
WouldApply(assetList, evaluator, disabledMap) ==
    { i \in 1..Len(assetList) :
        /\ ShouldApply(assetList[i], evaluator).satisfied
        /\ ~assetList[i].rendered.err
        /\ assetList[i].rendered.exists
        /\ ~IsResourceExcluded(assetList[i].rendered.kind,
                               assetList[i].rendered.name, disabledMap) }

\* longest asset list rendered
MaxRenderAssets == 2

RenderConditionLists ==
    { <<>>,
      <<AssetCondition(ConditionTypeAnnotation, "enable-gpu", "true", <<>>, "")>>,
      <<AssetCondition(ConditionTypeHardwareDetection, "", "", <<>>, "gpu")>> }

RenderResults ==
    { RenderError, NoRendered, Rendered("ConfigMap", "config-1"),
      Rendered("ConfigMap", "config-2") }

\* an asset list: the i-th asset is named by its place in the catalog
RenderAssetLists ==
    UNION { { [i \in 1..n |->
                 [name |-> <<"asset", i>>, install |-> b[i].install,
                  conditions |-> b[i].conditions, rendered |-> b[i].rendered]] :
              b \in [1..n -> [install : {InstallModeAlways, InstallModeOptIn},
                              conditions : RenderConditionLists,
                              rendered : RenderResults]] } :
            n \in 0..MaxRenderAssets }

RenderAssets ==
    /\ fnOut = <<>>
    /\ LET renderCtx == [annotations |-> fnIn.annotations,
                         featureGates |-> <<>>,
                         disabled |-> fnIn.disabled]
           evaluator == [annotations |-> fnIn.annotations,
                         featureGates |-> {},
                         hardware |-> fnIn.hardware]
       IN  fnOut' = << [outputs |-> BuildOutputs(fnIn.assets, renderCtx,
                                                fnIn.showExcluded),
                        applied |-> WouldApply(fnIn.assets, evaluator,
                                               ParseDisabledResources(fnIn.disabled))] >>
    /\ UNCHANGED <<fnIn, procVars, concVars>>
    /\ UNCHANGED <<tombVars, pipeVars, thrVars, histVars, coreVars>>

InitRender ==
    /\ IdleBase
    /\ IdleProc
    /\ IdleConc
    /\ fnIn \in [assets : RenderAssetLists,
                 annotations : {NoAnnotations,
                                [k \in {"enable-gpu"} |-> "true"]},
                 disabled : {<<>>, ExclusionKey("ConfigMap", "config-2")},
                 hardware : HardwareContexts,
                 showExcluded : BOOLEAN]
    /\ fnOut = <<>>

NextRender == RenderAssets

SpecRender == InitRender /\ [][NextRender]_vars

(***************************************************************************)
(* C1: in every tombstone pass, Delete is issued on the live object only   *)
(* if the object fetched in that pass carries the ownership label with     *)
(* exactly the expected value; when the label is absent or has any other   *)
(* value the object is left in place and the tombstone returns no error.   *)
(***************************************************************************)
C1_DeleteOnlyWhenLabelled ==
    /\ tsPc = "delete" =>
          /\ TombstoneLabel \in DOMAIN tsLive
          /\ tsLive[TombstoneLabel] = TombstoneLabelValue
    /\ \A i \in DOMAIN tsOutcome :
          LET o == tsOutcome[i]
          IN  /\ o.deleteCalled =>
                    /\ TombstoneLabel \in DOMAIN o.fetchedLabels
                    /\ o.fetchedLabels[TombstoneLabel] = TombstoneLabelValue
              /\ (/\ o.fetched = "found"
                  /\ \/ TombstoneLabel \notin DOMAIN o.fetchedLabels
                     \/ o.fetchedLabels[TombstoneLabel] # TombstoneLabelValue)
                 => (~o.deleteCalled /\ ~o.deleted /\ ~o.err /\ o.status = "Skipped")

\* a pass met a present object with a foreign label and one it deleted
C1_Witness ==
    /\ Len(tsOutcome) = 2
    /\ tsOutcome[1].deleted
    /\ tsOutcome[2].fetched = "found"
    /\ tsOutcome[2].status = "Skipped"
    /\ tsOutcome[2].fetchedLabels = ManagedLabels("Virt-Platform-Autopilot")
    /\ tcluster[ObjKey(tsList[2])].exists

(***************************************************************************)
(* C2: when the object fetched by a reconciliation carries                 *)
(* mode=unmanaged, that reconciliation performs no write of any kind to    *)
(* it - no apply, no label stamp, no pause annotation - whatever drift,    *)
(* patch or ignore-fields annotations it also has.                         *)
(***************************************************************************)
C2_UnmanagedNeverWritten ==
    (/\ last.result # "none"
     /\ last.live.exists
     /\ AnnotationMode \in DOMAIN last.live.annotations
     /\ last.live.annotations[AnnotationMode] = ModeUnmanaged)
    => (/\ last.result = "UnmanagedMode"
        /\ last.write = "none"
        /\ last.thr = "none"
        /\ live = last.live)

\* an unlabeled, drifted, patched and masked object in unmanaged mode was
\* reconciled and stayed as it was
C2_Witness ==
    /\ last.result = "UnmanagedMode"
    /\ last.live.annotations[AnnotationMode] = ModeUnmanaged
    /\ PatchAnnotation \in DOMAIN last.live.annotations
    /\ AnnotationIgnoreFields \in DOMAIN last.live.annotations
    /\ last.live.labels = NoLabels
    /\ last.live.data # template.data
    /\ live = last.live

C4_SensitiveKindPatchBlocked ==
    (/\ last.result # "none"
     /\ last.live.exists
     /\ last.live.kind \in sensitiveKinds
     /\ PatchAnnotation \in DOMAIN last.live.annotations)
    => (/\ ~ValidateAnnotations(last.live)
        /\ last.result \in {"InvalidPatch", "UnmanagedMode", "Paused"}
        /\ last.write = "none"
        /\ live = last.live)

\* a drifted MachineConfig with a well-formed patch was rejected on a retry
C4_Witness ==
    /\ asset.kind = "MachineConfig"
    /\ last.result = "InvalidPatch"
    /\ last.prev = "InvalidPatch"
    /\ Lookup(last.live.annotations, PatchAnnotation) = PatchSetA
    /\ last.live.labels = ManagedLabels(ManagedByValue)
    /\ last.live.data # template.data
    /\ live = last.live

(***************************************************************************)
(* C5: when the HCO's disabled-resources annotation has a comma-separated  *)
(* entry that, with surrounding whitespace trimmed, equals Kind/Name of an *)
(* object compared case-sensitively, the object is not applied in that     *)
(* reconciliation; an entry that differs from Kind/Name only in letter     *)
(* case excludes nothing.                                                  *)
(***************************************************************************)
C5_ExactEntryExcludes ==
    LET s == hcoDisabled
        n == Len(s)
        key == <<asset.kind, "/", asset.name>>
        \* s[i..j] is one comma-separated entry of the annotation
        IsEntry(i, j) ==
            /\ i = 1 \/ s[i - 1] = ","
            /\ j = n \/ s[j + 1] = ","
            /\ \A k \in i..j : s[k] # ","
        \* s[i..j] is text t surrounded by blanks only
        TrimsTo(i, j, t) ==
            \E p \in i..j :
               /\ p + Len(t) - 1 <= j
               /\ \A k \in 1..Len(t) : s[p + k - 1] = t[k]
               /\ \A k \in i..j : (k < p \/ k > p + Len(t) - 1) => s[k] = " "
        HasEntry(t) == \E i \in 1..n, j \in 1..n : i <= j /\ IsEntry(i, j) /\ TrimsTo(i, j, t)
        Fold(t) == [k \in 1..Len(t) |-> IF t[k] = "A" THEN "a" ELSE t[k]]
        HasCaseVariantOnly ==
            /\ ~HasEntry(key)
            /\ \E t \in [1..3 -> {"A", "a", "/"}] : Fold(t) = Fold(key) /\ HasEntry(t)
    IN  last.result # "none" =>
           /\ HasEntry(key) =>
                 /\ last.result = "Excluded"
                 /\ last.write = "none"
                 /\ live = last.live
           /\ ~HasEntry(key) => last.result # "Excluded"
           /\ HasCaseVariantOnly =>
                 last.result \in {"Created", "Unchanged"}

\* the entry " A/a" excluded the object A/a next to a case variant of it
C5_Witness ==
    /\ hcoDisabled = <<"a", ",", " ", "A", "/", "a">> \/ hcoDisabled = <<" ", "A", "/", "a", " ">>
    /\ asset.kind = "A"
    /\ asset.name = "a"
    /\ last.result = "Excluded"
    /\ ~live.exists

(***************************************************************************)
(* C6: every object a reconciliation creates or updates carries, in the    *)
(* state written to the API server, the ownership label managed-by with    *)
(* the operator id as value - also when the rendered template or the       *)
(* user's patch omits the label or gives it another value.                 *)
(***************************************************************************)
C6_WrittenStateCarriesLabel ==
    last.write # "none" =>
       /\ live.exists
       /\ ManagedByLabel \in DOMAIN live.labels
       /\ live.labels[ManagedByLabel] = ManagedByValue

\* a ConfigMap whose template has a foreign label value and whose patch sets
\* yet another one was updated
C6_Witness ==
    /\ asset.kind = "ConfigMap"
    /\ template.labels = ManagedLabels("some-other-operator")
    /\ Lookup(last.live.annotations, PatchAnnotation) = PatchSetLabel
    /\ last.write = "apply"
    /\ live.labels = ManagedLabels(ManagedByValue)

C10_IgnoredFieldKeepsLiveValue ==
    (/\ last.write \in {"create", "apply"}
     /\ last.live.exists
     /\ AnnotationIgnoreFields \in DOMAIN last.live.annotations)
    => LET text == last.live.annotations[AnnotationIgnoreFields]
           unmasked == ApplyJSONPatch(RenderAsset, last.live).obj
       IN  /\ text = PointerA =>
                 /\ "a" \in DOMAIN live.data
                 /\ live.data["a"] = last.live.data["a"]
                 /\ live.data["b"] = unmasked.data["b"]
           /\ text = PointerMissing =>
                 /\ "c" \notin DOMAIN live.data
                 /\ live.data = unmasked.data

\* an apply corrected field b and left the ignored, hand-edited field a
C10_Witness ==
    /\ last.write = "apply"
    /\ Lookup(last.live.annotations, AnnotationIgnoreFields) = PointerA
    /\ last.live.data = [k \in DataKeys |-> "2"]
    /\ live.data["a"] = "2"
    /\ live.data["b"] = "1"

(***************************************************************************)
(* C7: with the default bucket (capacity 5, window 60 s), of the Allow     *)
(* calls for one key that fall inside one window exactly the first 5 are   *)
(* admitted and every later call in that window is denied with a           *)
(* retryAfter >= 0; a denied call results in no apply for that object.     *)
(***************************************************************************)
C7_FirstFiveAdmitted ==
    last.thr # "none" =>
       /\ capacity = 5 /\ window = 60
       /\ (last.thr = "admitted") <=> (thrCalls <= 5)
       /\ last.thr = "denied" =>
             /\ last.retryAfter >= 0
             /\ last.result = "Throttled"
             /\ last.write \notin {"create", "apply"}
             /\ live.data = last.live.data
             /\ live.labels = last.live.labels

\* the sixth call of a window was denied and the drift stayed
C7_Witness ==
    /\ thrCalls = 6
    /\ last.thr = "denied"
    /\ last.retryAfter > 0
    /\ bucket.remaining = 0
    /\ live.data # template.data
    /\ live.data = last.live.data

C11_ApplyCorrectsDrift ==
    (/\ last.thr = "admitted"
     /\ last.result # "ApplyFailed"
     /\ last.live.exists
     /\ ManagedByLabel \in DOMAIN last.live.labels
     /\ last.live.labels[ManagedByLabel] = ManagedByValue
     /\ last.live.annotations = NoAnnotations
     /\ \E k \in DOMAIN template.data :
           k \notin DOMAIN last.live.data \/ last.live.data[k] # template.data[k])
    => (/\ last.write = "apply"
        /\ last.result = "DriftCorrected"
        /\ \A k \in DOMAIN template.data :
              k \in DOMAIN live.data /\ live.data[k] = template.data[k]
        /\ ManagedByLabel \in DOMAIN live.labels
        /\ live.labels[ManagedByLabel] = ManagedByValue)

\* both fields of a labelled object had been changed to "2" and an apply
\* put them back
C11_Witness ==
    /\ last.result = "DriftCorrected"
    /\ last.write = "apply"
    /\ last.live.annotations = NoAnnotations
    /\ last.live.labels = ManagedLabels(ManagedByValue)
    /\ last.live.data = [k \in DataKeys |-> "2"]
    /\ live.data = [k \in DataKeys |-> "1"]

(***************************************************************************)
(* C16: once the live object carries reconcile-paused="true", no           *)
(* reconciliation applies to it (no create, no apply, no further pause     *)
(* stamp) for as long as the annotation is there, and no reconciliation    *)
(* removes or changes the annotation: only another actor does.             *)
(***************************************************************************)
C16_PausedObjectNotApplied ==
    (/\ last.result # "none"
     /\ last.live.exists
     /\ AnnotationReconcilePaused \in DOMAIN last.live.annotations)
    => (/\ live.exists
        /\ AnnotationReconcilePaused \in DOMAIN live.annotations
        /\ live.annotations[AnnotationReconcilePaused] =
              last.live.annotations[AnnotationReconcilePaused]
        /\ last.live.annotations[AnnotationReconcilePaused] = "true" =>
              /\ last.write = "none"
              /\ last.thr = "none"
              /\ last.result \in {"Paused", "UnmanagedMode", "Excluded"}
              /\ live = last.live)

\* the engine paused a drifted object after repeated throttling and the
\* next reconciliation skipped it, drift and annotation still in place
C16_Witness ==
    /\ last.prev = "Throttled"
    /\ last.result = "Paused"
    /\ last.write = "none"
    /\ live = last.live
    /\ live.annotations[AnnotationReconcilePaused] = "true"
    /\ live.data # template.data

(***************************************************************************)
(* C17: ReconcileTombstones processes every loaded tombstone even when     *)
(* some fail: after a Get or Delete failure the later tombstones are still *)
(* fetched and, if labelled, deleted.  The call returns a non-nil          *)
(* aggregated error exactly when at least one tombstone failed, and its    *)
(* count is the number of objects whose Delete succeeded.                  *)
(***************************************************************************)
C17_BestEffortBatch ==
    /\ tsPc # "idle" =>
          /\ Len(tsOutcome) = Len(tsList)
          /\ \A i \in 1..Len(tsList) : tsOutcome[i].status # "none" <=> i < tsIdx
          /\ aggregatedErrors = Cardinality({i \in 1..Len(tsList) : tsOutcome[i].err})
          /\ deletedCount = Cardinality({i \in 1..Len(tsList) : tsOutcome[i].deleted})
    /\ (tsPc = "idle" /\ ~tsRet.loadErr) =>
          /\ Len(tsOutcome) = Len(tsList)
          /\ \A i \in 1..Len(tsList) : tsOutcome[i].status # "none"
          /\ tsRet.err <=> \E i \in 1..Len(tsList) : tsOutcome[i].status = "Error"
          /\ tsRet.count =
                Cardinality({i \in 1..Len(tsList) :
                                tsOutcome[i].deleteCalled /\ tsOutcome[i].status = "Deleted"})

\* the first tombstone failed and the second was still deleted
C17_Witness ==
    /\ tsPc = "idle"
    /\ Len(tsList) = 2
    /\ tsOutcome[1].status = "Error"
    /\ tsOutcome[2].deleted
    /\ ~tcluster[ObjKey(tsList[2])].exists
    /\ tsRet = [count |-> 1, err |-> TRUE, loadErr |-> FALSE]

(***************************************************************************)
(* C18: each tombstone processed in a pass ends in exactly one outcome:    *)
(*   object absent            - status Deleted, no Delete call, no event;  *)
(*   present, label mismatch  - status Skipped, event TombstoneSkipped,    *)
(*                              no Delete call, no error;                  *)
(*   present, label matches,                                               *)
(*   Delete succeeded         - status Deleted, event TombstoneDeleted;    *)
(*   Get or Delete failed     - status Error, event TombstoneFailed, an    *)
(*                              error returned.                            *)
(* Events go to the event recorder when one is set; without a recorder     *)
(* none is emitted.                                                        *)
(***************************************************************************)
C18_OneOutcomePerTombstone ==
    \A i \in DOMAIN tsOutcome :
       LET o == tsOutcome[i]
           emitted(e) == o.event = (IF recorderSet THEN e ELSE "none")
           mismatch == \/ TombstoneLabel \notin DOMAIN o.fetchedLabels
                       \/ o.fetchedLabels[TombstoneLabel] # TombstoneLabelValue
           absent == /\ o.fetched = "notfound"
                     /\ o.status = "Deleted" /\ ~o.deleteCalled /\ ~o.deleted
                     /\ ~o.err /\ o.event = "none"
           skipped == /\ o.fetched = "found" /\ mismatch
                      /\ o.status = "Skipped" /\ ~o.deleteCalled /\ ~o.deleted
                      /\ ~o.err /\ emitted("TombstoneSkipped")
           deleted == /\ o.fetched = "found" /\ ~mismatch
                      /\ o.status = "Deleted" /\ o.deleteCalled /\ o.deleted
                      /\ ~o.err /\ emitted("TombstoneDeleted")
           failed == /\ o.fetched = "error" \/ (o.fetched = "found" /\ ~mismatch)
                     /\ o.fetched = "error" <=> ~o.deleteCalled
                     /\ o.status = "Error" /\ ~o.deleted
                     /\ o.err /\ emitted("TombstoneFailed")
       IN  o.status # "none" =>
              Cardinality({c \in {"absent", "skipped", "deleted", "failed"} :
                             CASE c = "absent" -> absent
                               [] c = "skipped" -> skipped
                               [] c = "deleted" -> deleted
                               [] OTHER -> failed}) = 1

\* one pass with a recorder skipped a mislabelled object and deleted a
\* labelled one
C18_Witness ==
    /\ recorderSet
    /\ Len(tsOutcome) = 2
    /\ tsOutcome[1].status = "Skipped"
    /\ tsOutcome[1].event = "TombstoneSkipped"
    /\ tsOutcome[2].status = "Deleted"
    /\ tsOutcome[2].event = "TombstoneDeleted"
    /\ tsOutcome[2].deleteCalled

(***************************************************************************)
(* C19: tombstone reconciliation is idempotent.  When the tombstoned       *)
(* object is already absent the pass issues no Delete for it, returns no   *)
(* error for it and does not count it as deleted; so a pass that follows   *)
(* a pass without error, with no change by another actor and no API        *)
(* failure in between, issues no Delete and returns count 0 and no error.  *)
(***************************************************************************)
C19_TombstonePassIdempotent ==
    /\ \A i \in DOMAIN tsOutcome :
          tsOutcome[i].fetched = "notfound" =>
             /\ ~tsOutcome[i].deleteCalled
             /\ ~tsOutcome[i].deleted
             /\ ~tsOutcome[i].err
             /\ tsOutcome[i].status = "Deleted"
    /\ (tsPc = "idle" /\ tsQuiet.clean = 2) =>
          /\ tsRet = [count |-> 0, err |-> FALSE, loadErr |-> FALSE]
          /\ \A i \in DOMAIN tsOutcome : ~tsOutcome[i].deleteCalled

\* the second of two undisturbed passes found one object absent and left
\* the other, which is not labelled as ours, in place
C19_Witness ==
    /\ tsPc = "idle"
    /\ tsQuiet.clean = 2
    /\ Len(tsOutcome) = 2
    /\ tsOutcome[1].fetched = "notfound"
    /\ tsOutcome[2].status = "Skipped"
    /\ tcluster[ObjKey(tsList[2])].exists
    /\ tsRet.count = 0
    /\ ~tsRet.err

(***************************************************************************)
(* C20 (as stated): tombstone deletion is NotFound-tolerant: when the      *)
(* object is already gone at the time Delete is issued - it disappeared    *)
(* between the fetch and the delete - the tombstone counts as successfully *)
(* deleted, with no error and no TombstoneFailed event.  Violated: the     *)
(* code treats every error of Delete, NotFound included, as a failure.     *)
(***************************************************************************)
C20_DeleteToleratesNotFound ==
    \A i \in DOMAIN tsOutcome :
       (tsOutcome[i].deleteCalled /\ tsOutcome[i].gone) =>
          /\ ~tsOutcome[i].err
          /\ tsOutcome[i].status = "Deleted"
          /\ tsOutcome[i].event # "TombstoneFailed"

(***************************************************************************)
(* C12: a failure while processing one asset (invalid annotations, missing *)
(* CRD, render failure, apply error or throttling) does not keep any later *)
(* asset of the order from being processed in the same reconciliation;     *)
(* the errors are aggregated, and the reconciliation returns a requeue     *)
(* when at least one non-throttle failure occurred.                        *)
(***************************************************************************)
C12_FailureDoesNotStopLaterAssets ==
    LET returned == rcPc = "idle" /\ rcRet.ran /\ ~rcRet.aborted
        done == rcPc \in {"tombstones", "returning"} \/ returned
        with(results) == {i \in 1..Len(rcTrace) : rcTrace[i].result \in results}
    IN  /\ rcPc = "assets" => Len(rcTrace) + Len(rcTodo) = Len(catalog)
        /\ done =>
              /\ Len(rcTrace) = Len(catalog)
              /\ \A c \in 1..Len(catalog) :
                    \E i \in 1..Len(rcTrace) : rcTrace[i].name = catalog[c].name
              /\ rcErrs = Cardinality(with({"RenderFailed", "ApplyFailed"}))
        /\ returned =>
              /\ with({"InvalidPatch", "CRDMissing", "RenderFailed", "ApplyFailed"}) # {}
                    => (rcRet.err \/ rcRet.requeueAfter > 0)
              /\ with({"RenderFailed", "ApplyFailed"}) # {} => rcRet.err
              /\ with({"Throttled"}) # {} =>
                    (rcRet.requeueAfter > 0 /\ rcRet.requeueAfter < 300)

\* the first two assets failed, the third was applied, and the
\* reconciliation returned the aggregated error
C12_Witness ==
    /\ rcPc = "idle"
    /\ rcRet.ran
    /\ rcRet.err
    /\ Len(rcTrace) = 3
    /\ rcTrace[1].result = "ApplyFailed"
    /\ rcTrace[2].result = "Throttled"
    /\ rcTrace[3].result = "Applied"

(***************************************************************************)
(* C13: within one reconciliation every catalog asset is processed exactly *)
(* once, in increasing reconcileOrder, assets of equal reconcileOrder in   *)
(* lexicographic order of their names, whatever the order in which the     *)
(* catalog declares them.                                                  *)
(***************************************************************************)
C13_AssetsInReconcileOrder ==
    LET rank(c) == CASE c = "a" -> 1 [] c = "b" -> 2 [] c = "h" -> 3 [] OTHER -> 4
        \* s comes before t in the dictionary
        Before(s, t) ==
            \E k \in 1..Len(t) :
               /\ \A j \in 1..(k - 1) : j <= Len(s) /\ s[j] = t[j]
               /\ k = Len(s) + 1 \/ (k <= Len(s) /\ rank(s[k]) < rank(t[k]))
        done == \/ rcPc \in {"tombstones", "returning"}
                \/ rcPc = "idle" /\ rcRet.ran /\ ~rcRet.aborted
    IN  /\ \A i, j \in 1..Len(rcTrace) :
              i < j =>
                 \/ rcTrace[i].order < rcTrace[j].order
                 \/ /\ rcTrace[i].order = rcTrace[j].order
                    /\ Before(rcTrace[i].name, rcTrace[j].name)
        /\ \A i \in 1..Len(rcTrace) :
              \E c \in 1..Len(catalog) :
                 catalog[c].name = rcTrace[i].name /\ catalog[c].order = rcTrace[i].order
        /\ done =>
              \A c \in 1..Len(catalog) :
                 Cardinality({i \in 1..Len(rcTrace) : rcTrace[i].name = catalog[c].name}) = 1

\* the catalog declares b before a at the same order; a was processed first
C13_Witness ==
    /\ catalog[2].name = <<"b">>
    /\ catalog[3].name = <<"a">>
    /\ catalog[2].order = catalog[3].order
    /\ rcPc = "idle"
    /\ rcRet.ran
    /\ Len(rcTrace) = 3
    /\ rcTrace[1].name = <<"h">>
    /\ rcTrace[2].name = <<"a">>
    /\ rcTrace[3].name = <<"b">>

(***************************************************************************)
(* C14: in every reconciliation the order-0 HCO asset is applied before    *)
(* any other asset, and every later asset is rendered against a context    *)
(* built from the HCO as fetched again after that apply, never against the *)
(* HCO as it was before the apply.                                         *)
(***************************************************************************)
C14_LaterAssetsSeeAppliedHCO ==
    Len(rcTrace) >= 1 =>
       /\ rcTrace[1].order = 0
       /\ rcTrace[1].ctxRv = rcSeen.rv
       /\ \A i \in 2..Len(rcTrace) :
             /\ rcTrace[i].order > 0
             /\ rcTrace[i].ctxRv >= rcTrace[1].hcoRv
             /\ rcTrace[1].result = "Applied" => rcTrace[i].ctxRv > rcSeen.rv

\* the apply of the HCO asset wrote the HCO and both later assets were
\* rendered against the written HCO
C14_Witness ==
    /\ Len(rcTrace) = 3
    /\ rcTrace[1].result = "Applied"
    /\ rcTrace[1].hcoRv = rcSeen.rv + 1
    /\ rcTrace[2].ctxRv = rcTrace[1].hcoRv
    /\ rcTrace[3].ctxRv = rcTrace[1].hcoRv

(***************************************************************************)
(* C15: when the HCO is absent, or present without the annotation          *)
(* platform.kubevirt.io/autopilot equal to exactly "true", a               *)
(* reconciliation applies no asset and deletes no tombstoned object: it    *)
(* ends at once, with no asset processed and the tombstone reconciler not  *)
(* called.                                                                 *)
(***************************************************************************)
C15_NoActionWithoutOptIn ==
    (\/ ~rcSeen.exists
     \/ "platform.kubevirt.io/autopilot" \notin DOMAIN rcSeen.annotations
     \/ rcSeen.annotations["platform.kubevirt.io/autopilot"] # "true")
    => (/\ rcPc = "idle"
        /\ tsPc = "idle"
        /\ rcTrace = <<>>
        /\ rcTodo = <<>>
        /\ ~rcRet.ran)

\* a reconciliation met an HCO annotated autopilot="True" while a labelled
\* tombstoned object was there to delete, and did nothing
C15_Witness ==
    /\ rcSeen.exists
    /\ Lookup(rcSeen.annotations, AnnotationAutopilotEnabled) = "True"
    /\ rcPc = "idle"
    /\ rcTrace = <<>>
    /\ tcluster[ObjKey(DeclCM)] = Present(ManagedLabels(TombstoneLabelValue))

(***************************************************************************)
(* C21: a tombstone whose object the previous pass skipped for label       *)
(* mismatch, or failed to delete, is looked up again by every later pass;  *)
(* an object found carrying the ownership label gets a Delete call, and    *)
(* when that call succeeds the object is gone from the cluster in that     *)
(* step and the tombstone's status is Deleted.                             *)
(***************************************************************************)
C21_RetriedUntilDeleted ==
    /\ [](\A i \in 1..Len(tsOutcome) :
            /\ ( /\ tsPc = "idle"
                 /\ i \in DOMAIN tsPrev
                 /\ tsPrev[i] \in {"Skipped", "Error"} )
               => tsOutcome[i].fetched # "none"
            /\ ( /\ tsOutcome[i].fetched = "found"
                 /\ Lookup(tsOutcome[i].fetchedLabels, TombstoneLabel)
                      = TombstoneLabelValue )
               => /\ tsOutcome[i].deleteCalled
                  /\ \/ tsOutcome[i].err
                     \/ tsOutcome[i].status = "Deleted" /\ tsOutcome[i].deleted)
    /\ [][ ( /\ tsPc = "delete"
             /\ tsPc' # "delete"
             /\ ~tsOutcome'[tsIdx].err )
           => /\ tcluster[ObjKey(tsList[tsIdx])].exists
              /\ tcluster'[ObjKey(tsList[tsIdx])] = Absent
              /\ tsOutcome'[tsIdx].status = "Deleted" ]_vars

\* a pass has deleted an object that the previous pass skipped or failed on
C21_Witness ==
    /\ tsPc = "idle"
    /\ \E i \in DOMAIN tsOutcome \cap DOMAIN tsPrev :
         /\ tsPrev[i] \in {"Skipped", "Error"}
         /\ tsOutcome[i].status = "Deleted"
         /\ tsOutcome[i].deleted
         /\ tcluster[ObjKey(tsList[i])] = Absent

(***************************************************************************)
(* C22: validateTombstone accepts a declaration exactly when its kind,     *)
(* apiVersion and metadata.name are non-empty and its label                *)
(* platform.kubevirt.io/managed-by is virt-platform-autopilot; the         *)
(* namespace plays no part, and LoadTombstones fails exactly on a          *)
(* rejected declaration.                                                   *)
(***************************************************************************)
C22_AcceptedExactlyWhenComplete ==
    Len(fnOut) = 1 =>
        LET complete ==
              /\ fnIn.kind # ""
              /\ fnIn.apiVersion # ""
              /\ fnIn.name # ""
              /\ TombstoneLabel \in DOMAIN fnIn.labels
              /\ fnIn.labels[TombstoneLabel] = "virt-platform-autopilot"
        IN  /\ fnOut[1].accepted <=> complete
            /\ fnOut[1].loadErr <=> ~complete
            /\ fnIn.labels = NoLabels => ~fnOut[1].accepted

\* a cluster-scoped declaration (no namespace) has been accepted
C22_Witness ==
    /\ Len(fnOut) = 1
    /\ fnOut[1].accepted
    /\ fnIn.namespace = ""
    /\ fnIn.kind = "ConfigMap"

(***************************************************************************)
(* C23: with an embedded tombstone declaration that fails validation the   *)
(* process never gets to run: it does not reach the running manager, no    *)
(* reconciliation starts, and once it has exited its code is not 0.        *)
(***************************************************************************)
C23_InvalidTombstoneIsStartupFatal ==
    LoadTombstones(tsFiles).err =>
        /\ proc.pc # "running"
        /\ rcPc = "idle"
        /\ rcTrace = <<>>
        /\ ~rcRet.ran
        /\ proc.pc = "exited" => proc.exit # 0

(***************************************************************************)
(* C28: the reconciler exists, the manager runs and reconciliations happen *)
(* only after the startup check found the HCO CRD; when the check returns  *)
(* an error, times out or finds no CRD, runController has returned an      *)
(* error (exit code not 0) and no reconciliation has run.                  *)
(***************************************************************************)
C28_ManagerOnlyAfterHCOCRDFound ==
    LET reconciled == \/ rcPc # "idle"
                      \/ rcTrace # <<>>
                      \/ rcRet.ran
                      \/ rcSeen.exists
                      \/ tsPc # "idle"
    IN  /\ ( \/ proc.pc \in {"setup", "running"}
             \/ proc.shutdownFn
             \/ watchedCRDs # {}
             \/ reconciled )
           => proc.check = "installed"
        /\ proc.check \in {"absent", "error", "timeout"}
           => /\ proc.pc = "exited"
              /\ proc.exit # 0
              /\ ~reconciled

\* the check failed and the process has exited
C28_Witness ==
    /\ proc.check \in {"error", "timeout"}
    /\ proc.pc = "exited"
    /\ proc.exit = ExitError

(***************************************************************************)
(* C27: once the reconciler has triggered shutdown through the function    *)
(* runController installed, the manager's context is cancelled, the        *)
(* manager stops and the process ends, and it ends with exit code 0.       *)
(***************************************************************************)
C27_TriggeredShutdownExitsZero ==
    /\ [](proc.triggered =>
            /\ proc.shutdownFn
            /\ proc.cancelled
            /\ proc.pc \in {"running", "exited"}
            /\ proc.pc = "exited" => proc.exit = 0)
    /\ (proc.triggered ~> (proc.pc = "exited" /\ proc.exit = 0))

\* the process has exited with 0 after a CRD event that triggered shutdown
C27_Witness ==
    /\ proc.triggered
    /\ crdEvent.shutdown
    /\ proc.pc = "exited"
    /\ proc.exit = ExitOK

C25_WatchedSetOnlyGrows ==
    /\ [][watchedCRDs \subseteq watchedCRDs']_vars
    /\ [](/\ conc.done \subseteq watchedCRDs
          /\ watchedCRDs \subseteq conc.started
          /\ \A g \in DOMAIN th :
                (th[g].op = "isWatched" /\ th[g].res # "none")
                => /\ th[g].pre => th[g].res = "true"
                   /\ th[g].res = "true" => th[g].arg \in conc.started)

\* two names marked by different goroutines whose calls overlapped, and a
\* later isWatchedCRD call that reported one of them watched
C25_Witness ==
    /\ conc.done = {"test-crd", "crd1.example.com"}
    /\ watchedCRDs = {"test-crd", "crd1.example.com"}
    /\ th["g1"].op = "isWatched"
    /\ th["g1"].pre
    /\ th["g1"].res = "true"
    /\ th["g2"].pc = "lock"

(***************************************************************************)
(* C24: however concurrent Allow calls for one key interleave, the calls   *)
(* admitted since the bucket's window last started never exceed the        *)
(* capacity, the bucket never holds fewer than zero or more than capacity  *)
(* tokens, and the key gets exactly one bucket.                            *)
(***************************************************************************)
C24_ConcurrentAllowWithinCapacity ==
    /\ conc.admitted <= capacity
    /\ conc.created <= 1
    /\ bucket.exists <=> conc.created = 1
    /\ bucket.exists => /\ bucket.remaining >= 0
                        /\ bucket.remaining <= capacity
                        /\ conc.admitted + bucket.remaining = capacity

\* both goroutines raced for the first use of the key, the window is used
\* up and a call has been refused
C24_Witness ==
    /\ conc.created = 1
    /\ conc.admitted = capacity
    /\ bucket.remaining = 0
    /\ th["g1"].res = "false"
    /\ th["g2"].res = "true"
    /\ th["g2"].calls = 1

(***************************************************************************)
(* C29: CheckConditions combines an asset's conditions with AND: the       *)
(* asset passes exactly when each of its conditions, checked on its own,   *)
(* passes; one failing condition excludes it wherever it stands in the     *)
(* list, and an asset without conditions always passes.                    *)
(***************************************************************************)
C29_ConditionsAndCombined ==
    Len(fnOut) = 1 =>
        /\ fnOut[1].satisfied <=> \A i \in DOMAIN fnOut[1].each : fnOut[1].each[i]
        /\ fnIn.conditions = <<>> => fnOut[1].satisfied

\* a satisfied condition followed by an unsatisfied one: the asset is out
C29_Witness ==
    /\ Len(fnOut) = 1
    /\ Len(fnIn.conditions) = 2
    /\ fnOut[1].each[1]
    /\ ~fnOut[1].each[2]
    /\ ~fnOut[1].satisfied

(***************************************************************************)
(* C30: an annotation condition {key, value} passes exactly when the HCO   *)
(* carries the annotation key with that value or, for an empty value,      *)
(* carries the key with any value; with an empty value and the key absent  *)
(* it does not pass.                                                       *)
(***************************************************************************)
C30_AnnotationConditionMatches ==
    ( /\ Len(fnOut) = 1
      /\ Len(fnIn.conditions) = 1
      /\ fnIn.conditions[1].type = "annotation" )
    => LET c == fnIn.conditions[1]
           present == c.key \in DOMAIN fnIn.annotations
       IN  fnOut[1].satisfied <=>
             IF c.value = ""
             THEN present
             ELSE present /\ fnIn.annotations[c.key] = c.value

(***************************************************************************)
(* C31: a feature-gate condition {value} passes exactly when the gate      *)
(* named value is one of the entries of HCO.spec.featureGates; a gate      *)
(* whose name only contains value, or is contained in it, does not count.  *)
(***************************************************************************)
C31_FeatureGateConditionMatches ==
    ( /\ Len(fnOut) = 1
      /\ Len(fnIn.conditions) = 1
      /\ fnIn.conditions[1].type = "feature-gate" )
    => ( fnOut[1].satisfied <=> fnIn.conditions[1].gate \in fnIn.specGates )

C33_RejectedExactlyForBadOverrides ==
    (Len(fnOut) = 1 /\ fnIn.exists)
    => LET a == fnIn.annotations
           has(k) == k \in DOMAIN a
           badPatch == has("platform.kubevirt.io/patch") /\
                         ( \/ ~ValidateJSONPatch(a["platform.kubevirt.io/patch"])
                           \/ fnIn.kind \in sensitiveKinds )
           badIgnore == has("platform.kubevirt.io/ignore-fields") /\
                         ~ValidatePointers(a["platform.kubevirt.io/ignore-fields"])
           badMode == has("platform.kubevirt.io/mode") /\
                         a["platform.kubevirt.io/mode"] \notin {"unmanaged", ""}
       IN  /\ ~fnOut[1].accepted <=> (badPatch \/ badIgnore \/ badMode)
           /\ DOMAIN a = {} => fnOut[1].accepted

\* a sensitive kind with ignore-fields and mode=unmanaged but no patch was
\* validated and accepted
C33_Witness ==
    /\ Len(fnOut) = 1
    /\ fnIn.exists
    /\ fnIn.kind = "MachineConfig"
    /\ DOMAIN fnIn.annotations =
         {"platform.kubevirt.io/ignore-fields", "platform.kubevirt.io/mode"}
    /\ fnIn.annotations["platform.kubevirt.io/mode"] = "unmanaged"
    /\ fnOut[1].accepted

(***************************************************************************)
(* C34, as stated: every write the controller issues to a managed object   *)
(* (the HCO the order-0 asset renders, the tombstoned objects) is issued   *)
(* by the Applier, that is, in the asset step of a reconciliation.         *)
(***************************************************************************)
C34_ControllerStep ==
    <<rcPc, rcTrace, rcRet, tsPc, tsIdx, tsOutcome, tsRet>>' #
    <<rcPc, rcTrace, rcRet, tsPc, tsIdx, tsOutcome, tsRet>>

C34_ApplierStep ==
    /\ rcPc = "assets"
    /\ Len(rcTrace') = Len(rcTrace) + 1
    /\ rcTrace'[Len(rcTrace')].result = "Applied"

C40_FilterKeepsExactlyEnabled ==
    Len(fnOut) = 1 =>
        LET Enabled(a) == <<a.kind, "/", a.name>> \notin fnIn.disabledMap
        IN  /\ fnOut[1].filtered = SelectSeq(fnIn.assets, Enabled)
            /\ fnIn.disabledMap = {} => fnOut[1].filtered = fnIn.assets
            /\ fnOut[1].again = fnOut[1].filtered

\* two disabled assets around an enabled one were filtered; the enabled
\* one is all that is left
C40_Witness ==
    /\ Len(fnOut) = 1
    /\ Len(fnIn.assets) = 3
    /\ <<fnIn.assets[1].kind, "/", fnIn.assets[1].name>> \in fnIn.disabledMap
    /\ <<fnIn.assets[3].kind, "/", fnIn.assets[3].name>> \in fnIn.disabledMap
    /\ fnOut[1].filtered = <<fnIn.assets[2]>>

(***************************************************************************)
(* C39: BuildOutputs gives each asset one status by the precedence         *)
(* conditions not met => EXCLUDED, render error => ERROR, empty render =>  *)
(* EXCLUDED, root-excluded => FILTERED, otherwise INCLUDED; the outputs    *)
(* follow the order of the input list; an object is attached exactly to    *)
(* the INCLUDED outputs; with showExcluded = FALSE only INCLUDED and ERROR *)
(* outputs are returned, with showExcluded = TRUE one output per asset.    *)
(***************************************************************************)
C39_StatusOf(a) ==
    IF ~CheckConditions(a.conditions,
                        [annotations |-> fnIn.annotations, featureGates |-> <<>>])
    THEN "EXCLUDED"
    ELSE IF a.rendered.err THEN "ERROR"
    ELSE IF ~a.rendered.exists THEN "EXCLUDED"
    ELSE IF fnIn.disabled # <<>> /\ fnIn.disabled = <<a.rendered.kind, "/", a.rendered.name>>
    THEN "FILTERED"
    ELSE "INCLUDED"

C35_RenderIncludedEqualsApplied ==
    (Len(fnOut) = 1 /\ OptInViolations(fnIn.assets) = {}) =>
        { i \in 1..Len(fnIn.assets) :
            \E k \in 1..Len(fnOut[1].outputs) :
               /\ fnOut[1].outputs[k].asset = fnIn.assets[i].name
               /\ fnOut[1].outputs[k].status = "INCLUDED" }
        = fnOut[1].applied

C37_DeleteOnlyWhileStillLabelled ==
    [][ ( /\ tsPc = "delete"
          /\ tsOutcome' # tsOutcome
          /\ tcluster' # tcluster )
        => ~LabelMismatch(tcluster[ObjKey(tsList[tsIdx])].labels) ]_vars

(***************************************************************************)
(* C38: tombstone loading is all-or-nothing.  When any embedded            *)
(* declaration fails validation, LoadTombstones returns an error and no    *)
(* list, and ReconcileTombstones in that pass never reaches a Get or a     *)
(* Delete for any tombstone, the valid ones included, and returns count 0  *)
(* with the error.                                                         *)
(***************************************************************************)
C38_LoadIsAllOrNothing ==
    (\E i \in 1..Len(tsFiles) : ~validateTombstone(tsFiles[i]))
    => /\ LoadTombstones(tsFiles).err
       /\ LoadTombstones(tsFiles).tombstones = <<>>
       /\ tsPc = "idle"
       /\ tsList = <<>>
       /\ tsOutcome = <<>>
       /\ deletedCount = 0
       /\ tsRet.count = 0
       /\ tsRet.err = tsRet.loadErr

\* a pass over one valid and one invalid declaration returned the load
\* error while the valid tombstone's object is there, labelled
C38_Witness ==
    /\ \E i \in 1..Len(tsFiles) : ~validateTombstone(tsFiles[i])
    /\ \E i \in 1..Len(tsFiles) :
          /\ validateTombstone(tsFiles[i])
          /\ tcluster[ObjKey(tsFiles[i])].exists
          /\ ~LabelMismatch(tcluster[ObjKey(tsFiles[i])].labels)
    /\ tsRet.loadErr
    /\ tsRet.err

====
